---- MODULE Spec2Model ----
(***************************************************************************)
(* The request/response bridge of the Roc playground: the message queue   *)
(* and drain loop of src/src/wasm/roc-wasm.ts (status-code variant) and   *)
(* of the pointer-return variant, one call cycle split at every call of   *)
(* a module export, and the foreign module as its interface document      *)
(* src/WASM_PLAYGROUND_API.md describes it.                                *)
(*                                                                         *)
(* sendMessageToWasm has no await of its own, so in the program a call     *)
(* runs from its first export call to its last without any caller's code  *)
(* in between. Here a submission may fall between any two export calls:   *)
(* every behaviour of the program is a behaviour of this specification,   *)
(* and one call at a time then rests on the messageInProgress guard alone. *)
(* An export may return, return a failure value, or trap at any call.     *)
(* resetWasm, which nothing in the repository calls, is no action of      *)
(* Spec; SpecReset is the bridge with a page that calls it and that calls *)
(* initializeWasm again. SpecLength and SpecPosition apply one function   *)
(* of the bridge on its own to each of a set of inputs.                   *)
(***************************************************************************)
EXTENDS Integers, Sequences, FiniteSets, TLC

\* ------------------------------------------------------------------ bounds
\* requests submitted through the interface after the INIT request
MaxRequests == 3
\* entries waiting in messageQueue at one time
MaxQueue == 2
\* drain-loop activations that can exist at one time
MaxLoops == 2
\* callers that have given up waiting for a request still outstanding
MaxTimeouts == 1
\* requests submitted after the first INIT while the page resets and reloads
MaxResetRequests == 2
\* calls of compile() made after initialization
MaxCompiles == 2

\* ------------------------------------------------------- program constants
\* the closed WasmError enumeration ends at internal_error = 6
MaxStatusCode == 6

Loops == 1..MaxLoops
\* the INIT request, and the requests callers submit or the two requests
\* of each compile
MaxIds ==
  IF 2 * MaxCompiles > MaxRequests THEN 2 * MaxCompiles + 1
                                   ELSE MaxRequests + 1
Ids == 1..MaxIds
Compiles == 1..MaxCompiles

\* request kinds: the kinds the interface and the document name, and one
\* kind the module does not recognise
Kinds ==
  {"INIT", "LOAD_SOURCE", "QUERY_TOKENS", "QUERY_AST", "QUERY_CIR",
   "QUERY_TYPES", "GET_TYPE_INFO", "GET_HOVER_INFO", "RESET", "BOGUS"}

\* the kinds that ask about the loaded source; GET_HOVER_INFO is what the
\* interface sends where the document has GET_TYPE_INFO
QueryKinds ==
  {"QUERY_TOKENS", "QUERY_AST", "QUERY_CIR", "QUERY_TYPES", "GET_TYPE_INFO",
   "GET_HOVER_INFO"}

\* the kinds drawn for a request that is submitted while the bridge is
\* busy: the queue never reads the kind, and the module treats the kinds
\* left out like QUERY_TOKENS
ConcurrentKinds == {"LOAD_SOURCE", "QUERY_TOKENS", "RESET"}

Variants == {"status", "pointer"}

NoEntry == [id |-> 0, type |-> "none"]
NoError == [kind |-> "none", code |-> 0, reason |-> "none"]
NoResponse ==
  [form |-> "none", status |-> "none", message |-> "none", req |-> 0]

\* errorMessages[resultCode] || 'Unknown error'
errorMessages(code) ==
  CASE code = 0 -> "success"
    [] code = 1 -> "invalid_json"
    [] code = 2 -> "missing_message_type"
    [] code = 3 -> "unknown_message_type"
    [] code = 4 -> "invalid_state_for_message"
    [] code = 5 -> "response_buffer_too_small"
    [] code = 6 -> "internal_error"
    [] OTHER -> "Unknown error"

VARIABLES
  variant,            \* which bridge is built: "status" or "pointer"
  wasmModule,         \* NullModule, or the instantiated module's exports
  wasmMemory,         \* "null" or "memory"
  messageQueue,       \* sequence of queued entries [id, type]
  messageInProgress,  \* the active-drain flag
  wasmIsDead,         \* the liveness flag, TRUE once a fault was caught
  loop,               \* the activations of processMessageQueue
  promise,            \* per request: "none", "pending", then "resolved" or
                      \* "rejected" until the caller's reaction has run
  nextId,             \* id of the next request submitted
  wasm,               \* the foreign module: protocol state, regions, log
  initPc,             \* position of initializeWasm
  settleCount,        \* per request: how often its promise was settled
  waiting,            \* per request: the caller still awaits the promise
  value,              \* per request: the response its promise resolved
                      \* with, until the caller's reaction has run
  compilerVersion,    \* what initializeWasm returned as compilerVersion,
                      \* until the page has taken it
  compiles,           \* the calls of compile() of the interface and of
                      \* compileCode of the page: position and requests
  probe               \* a function of the bridge applied on its own: its
                      \* input, its position and its result

\* the variables of the bridge and its module
bridgeVars ==
  <<variant, wasmModule, wasmMemory, messageQueue, messageInProgress,
    wasmIsDead, loop, promise, nextId, wasm, initPc, settleCount,
    waiting, value, compilerVersion, compiles>>

vars == <<probe, bridgeVars>>

\* compile() was not called: no request of it, no timer of compileCode
NoCompile ==
  [pc |-> "idle", reset |-> 0, load |-> 0, status |-> "none",
   timer |-> "none", abandoned |-> FALSE]

\* no function is applied on its own
NoProbe == [op |-> "none"]

\* wasmModule = null; an instantiated module has loaded = TRUE and tells
\* which exports it has
NullModule == [loaded |-> FALSE, required |-> FALSE, debug |-> FALSE]

\* ---------------------------------------------------------- the loop state
IdleLoop ==
  [pc |-> "idle", cur |-> NoEntry, messagePtr |-> "null",
   responsePtr |-> "null", err |-> NoError, resp |-> NoResponse,
   returned |-> FALSE, nAllocMsg |-> 0, nAllocResp |-> 0, nInvoke |-> 0,
   nFreeMsg |-> 0, nFreeResp |-> 0, nLog |-> 0, nClear |-> 0,
   allocMsgRet |-> "none", allocRespRet |-> "none", invokeRet |-> "none",
   code |-> 0, raw |-> NoResponse, freeNull |-> FALSE, logFailed |-> FALSE]

\* pcs at which the call cycle of the current entry has begun and its
\* release has not finished
CyclePcs ==
  {"allocMsg", "allocResp", "invoke", "freeEarly", "freeString", "debugLog",
   "catch", "finallyMsg", "finallyResp"}

\* a module instance as instantiation leaves it: its protocol state, whether
\* it holds a request region and a response region, whether its debug log
\* has content, and whether a release export of it has trapped
FreshModule ==
  [state |-> "START", msgBuf |-> FALSE, respBuf |-> FALSE, log |-> FALSE,
   freeTrapped |-> FALSE]

BridgeInit ==
  /\ variant \in Variants
  /\ wasmModule = NullModule
  /\ wasmMemory = "null"
  /\ messageQueue = << >>
  /\ messageInProgress = FALSE
  /\ wasmIsDead = FALSE
  /\ loop = [l \in Loops |-> IdleLoop]
  /\ promise = [i \in Ids |-> "none"]
  /\ nextId = 1
  /\ wasm = FreshModule
  /\ initPc = "start"
  /\ settleCount = [i \in Ids |-> 0]
  /\ waiting = [i \in Ids |-> FALSE]
  /\ value = [i \in Ids |-> NoResponse]
  /\ compilerVersion = "unset"
  /\ compiles = [c \in Compiles |-> NoCompile]

Init == BridgeInit /\ probe = NoProbe

\* ------------------------------------------------------ the foreign module
\* The request kinds the module recognises.
Recognised == Kinds \ {"BOGUS"}

\* Whether a recognised kind is applicable in a protocol state.
Applicable(state, type) ==
  CASE type = "INIT" -> state = "START"
    [] type = "LOAD_SOURCE" -> state = "READY"
    [] type \in QueryKinds -> state = "LOADED"
    [] type = "RESET" -> state \in {"READY", "LOADED"}
    [] OTHER -> FALSE

\* Mutant: RESET leaves the protocol state as it is.
Target_ResetKeeps(state, type) ==
  CASE type = "INIT" -> "READY"
    [] type = "LOAD_SOURCE" -> "LOADED"
    [] OTHER -> state

\* The protocol state an accepted request leads to.
Target(state, type) ==
  CASE type = "INIT" -> "READY"
    [] type = "LOAD_SOURCE" -> "LOADED"
    [] type = "RESET" -> "READY"
    [] OTHER -> state

\* Mutant: a request sent in the wrong state throws the module back to
\* its initial state.
Handle_ForgetOnInvalid(state, type, ok) ==
  IF type \notin Recognised
    THEN [status |-> "INVALID_MESSAGE", state |-> state]
  ELSE IF ~Applicable(state, type)
    THEN [status |-> "INVALID_STATE", state |-> "START"]
  ELSE IF ok
    THEN [status |-> "SUCCESS", state |-> Target(state, type)]
  ELSE [status |-> "ERROR", state |-> state]

\* The message of a response: the compiler's version string in the answer
\* to an INIT or a RESET that succeeded, "LOADED" in that to a LOAD_SOURCE
\* that succeeded.
Message(status, type) ==
  IF status # "SUCCESS" THEN "none"
  ELSE CASE type \in {"INIT", "RESET"} -> "version"
         [] type = "LOAD_SOURCE" -> "LOADED"
         [] OTHER -> "none"

\* The module's debug log after it has worked on a message: what it held
\* and what the module has added, if it has a log to read.
Logged(w, module, added) == [w EXCEPT !.log = module.debug /\ (@ \/ added)]

\* clearDebugLog()
Cleared(w) == [w EXCEPT !.log = FALSE]

\* The kinds whose request carries a payload besides its type: source, or
\* identifier, line and ch.
PayloadKinds == {"LOAD_SOURCE", "GET_TYPE_INFO", "GET_HOVER_INFO"}

\* The module's protocol handler: the status it answers and the state it
\* is in afterwards; ok tells whether the payload of an applicable request
\* is one the module can work on.
Handle(state, type, ok) ==
  IF type \notin Recognised
    THEN [status |-> "INVALID_MESSAGE", state |-> state]
  ELSE IF ~Applicable(state, type)
    THEN [status |-> "INVALID_STATE", state |-> state]
  ELSE IF ok
    THEN [status |-> "SUCCESS", state |-> Target(state, type)]
  ELSE [status |-> "ERROR", state |-> state]

\* What the entry point can leave in the response region when it reports
\* success: a JSON object with a status, or, where the payload of an
\* accepted request went wrong, one without a status, bytes that are no
\* JSON, (status-code variant) a length prefix out of range, or
\* (pointer-return variant) an empty string.
ResponseForms(v) ==
  IF v = "status"
    THEN {"json", "noStatus", "badJson", "lenZero", "lenBig"}
    ELSE {"json", "noStatus", "badJson", "empty"}

\* What an export call can do besides returning: a WebAssembly.RuntimeError.
AllocReturns == {"ptr", "zero", "trap"}
FreeReturns == {"ok", "trap"}

\* ------------------------------------------------- the queue and its callers
\* Mutant: the guard without its test of messageInProgress.
NoDrainActive_IgnoreFlag(inProgress, queueLen) == queueLen # 0

\* The guard of processMessageQueue, negated: a drain loop may start.
NoDrainActive(inProgress, queueLen) == ~(inProgress \/ queueLen = 0)

\* The idle activation slot a new drain loop runs in.
FreeLoop == CHOOSE l \in Loops : loop[l].pc = "idle" /\
               \A k \in Loops : loop[k].pc = "idle" => l <= k

\* Mutant: processMessageQueue starts its loop without raising the flag.
processMessageQueue_NoFlag(queue) ==
  IF NoDrainActive(messageInProgress, Len(queue))
    THEN /\ \E l \in Loops : loop[l].pc = "idle"
         /\ loop' = [loop EXCEPT ![FreeLoop] = [IdleLoop EXCEPT !.pc = "while"]]
         /\ UNCHANGED messageInProgress
    ELSE UNCHANGED <<messageInProgress, loop>>

\* processMessageQueue up to its while loop: the guard and the flag.
processMessageQueue(queue) ==
  IF NoDrainActive(messageInProgress, Len(queue))
    THEN /\ \E l \in Loops : loop[l].pc = "idle"
         /\ messageInProgress' = TRUE
         /\ loop' = [loop EXCEPT ![FreeLoop] = [IdleLoop EXCEPT !.pc = "while"]]
    ELSE UNCHANGED <<messageInProgress, loop>>

\* Mutant: the entry is put at the front of the queue (unshift for push).
Enqueue_Front(type) ==
  /\ messageQueue' = <<[id |-> nextId, type |-> type]>> \o messageQueue
  /\ promise' = [promise EXCEPT ![nextId] = "pending"]
  /\ waiting' = [waiting EXCEPT ![nextId] = TRUE]
  /\ nextId' = nextId + 1
  /\ processMessageQueue(messageQueue')

\* sendMessageQueued: push the entry, then processMessageQueue().
Enqueue(type) ==
  /\ messageQueue' = Append(messageQueue, [id |-> nextId, type |-> type])
  /\ promise' = [promise EXCEPT ![nextId] = "pending"]
  /\ waiting' = [waiting EXCEPT ![nextId] = TRUE]
  /\ nextId' = nextId + 1
  /\ processMessageQueue(messageQueue')

\* The synchronous part of a call cycle is not under way: the points at
\* which another task of the page can run.
BetweenTurns == \A l \in Loops : loop[l].pc \in {"idle", "settle"}

\* The request initializeWasm awaits: the last one submitted, as callers
\* submit nothing until initializeWasm has handed out the interface.
InitRequest == nextId - 1

\* Mutant: initializeWasm marks the module live again.
initializeWasm_Revive ==
  /\ initPc = "start"
  /\ BetweenTurns
  /\ \E loaded, required, debug, initOk \in BOOLEAN :
       IF ~loaded
         THEN /\ initPc' = "failed"
              /\ UNCHANGED <<wasmModule, wasmMemory, messageQueue,
                             messageInProgress, loop, promise, nextId,
                             waiting, wasm>>
       ELSE /\ wasmModule' = [loaded |-> TRUE, required |-> required,
                             debug |-> debug]
            /\ wasmMemory' = "memory"
            /\ wasm' = FreshModule
            /\ IF required /\ initOk
                 THEN /\ initPc' = "awaitInit"
                      /\ Enqueue("INIT")
                 ELSE /\ initPc' = "failed"
                      /\ UNCHANGED <<messageQueue, messageInProgress, loop,
                                     promise, nextId, waiting>>
  /\ wasmIsDead' = FALSE
  /\ UNCHANGED <<probe, compiles,
                 variant, compilerVersion, value, settleCount>>

\* initializeWasm up to its await of the INIT response: fetch and
\* instantiate (a new instance, in its START state), the required-exports
\* check, init(), and the INIT request.
\* loaded: fetch and instantiate succeeded; required: the required exports
\* are functions; debug: getDebugLogBuffer and clearDebugLog are exported;
\* initOk: init() returned.
initializeWasm ==
  /\ initPc = "start"
  /\ BetweenTurns
  /\ \E loaded, required, debug, initOk \in BOOLEAN :
       IF ~loaded
         THEN /\ initPc' = "failed"
              /\ UNCHANGED <<wasmModule, wasmMemory, messageQueue,
                             messageInProgress, loop, promise, nextId,
                             waiting, wasm>>
       ELSE /\ wasmModule' = [loaded |-> TRUE, required |-> required,
                             debug |-> debug]
            /\ wasmMemory' = "memory"
            /\ wasm' = FreshModule
            /\ IF required /\ initOk
                 THEN /\ initPc' = "awaitInit"
                      /\ Enqueue("INIT")
                 ELSE /\ initPc' = "failed"
                      /\ UNCHANGED <<messageQueue, messageInProgress, loop,
                                     promise, nextId, waiting>>
  /\ UNCHANGED <<probe, compiles, variant, compilerVersion, value,
                 wasmIsDead, settleCount>>

\* A compilerVersion that is never taken from the response.
CompilerVersion_Dropped(initResponse) == "undefined"

\* compilerVersion in what initializeWasm returns: the message of the INIT
\* response if its status is SUCCESS and it has a message, else none.
CompilerVersion(initResponse) ==
  IF initResponse.status = "SUCCESS" /\ initResponse.message # "none"
    THEN initResponse.message
    ELSE "undefined"

\* initializeWasm after the INIT response: the interface is handed out when
\* the promise resolved, whatever its status; a rejection fails it.
initializeWasmDone ==
  /\ initPc = "awaitInit"
  /\ promise[InitRequest] \in {"resolved", "rejected"}
  /\ initPc' = IF promise[InitRequest] = "resolved" THEN "returned"
                                                     ELSE "failed"
  /\ promise' = [promise EXCEPT ![InitRequest] = "delivered"]
  /\ waiting' = [waiting EXCEPT ![InitRequest] = FALSE]
  /\ compilerVersion' = IF promise[InitRequest] = "resolved"
                          THEN CompilerVersion(value[InitRequest])
                          ELSE compilerVersion
  /\ value' = [value EXCEPT ![InitRequest] = NoResponse]
  /\ UNCHANGED <<probe, compiles,
                 variant, wasmModule, wasmMemory, messageQueue,
                 messageInProgress, wasmIsDead, loop, nextId, wasm,
                 settleCount>>

\* RocPlayground.initializeWasm of the page after its await: it keeps the
\* interface, from now on callers submit requests; it shows the version
\* and the result it was handed goes out of scope.
pageInitialized ==
  /\ initPc = "returned"
  /\ initPc' = "done"
  /\ compilerVersion' = "unset"
  /\ UNCHANGED <<probe, compiles,
                 variant, value, wasmModule, wasmMemory, messageQueue,
                 messageInProgress, wasmIsDead, loop, promise, nextId, wasm,
                 settleCount, waiting>>

\* The reaction of the caller that awaits a settled promise runs; what the
\* caller does with the outcome is its own business.
deliver(i) ==
  /\ ~(initPc = "awaitInit" /\ i = InitRequest)
  /\ promise[i] \in {"resolved", "rejected"}
  /\ promise' = [promise EXCEPT ![i] = "delivered"]
  /\ waiting' = [waiting EXCEPT ![i] = FALSE]
  /\ value' = [value EXCEPT ![i] = NoResponse]
  /\ UNCHANGED <<probe, compiles,
                 variant, compilerVersion, wasmModule, wasmMemory,
                 messageQueue, messageInProgress, wasmIsDead, loop, nextId,
                 wasm, initPc, settleCount>>

\* A caller submits a request through the interface.
sendMessageQueued(type) ==
  /\ initPc = "done"
  /\ messageInProgress => type \in ConcurrentKinds
  /\ nextId <= MaxRequests + 1
  /\ Len(messageQueue) < MaxQueue
  /\ Enqueue(type)
  /\ UNCHANGED <<probe, compiles, variant, compilerVersion, value,
                 wasmModule, wasmMemory, wasmIsDead, wasm, initPc,
                 settleCount>>

\* getDebugLog of the interface: a caller has the bridge call
\* getDebugLogBuffer, if the module exports it, and read the log. A fault
\* in the export is the caller's to handle.
getDebugLog ==
  /\ initPc = "done"
  /\ BetweenTurns
  /\ UNCHANGED vars

\* clearDebugLog of the interface: a caller has the bridge call
\* clearDebugLog, if the module exports it. A fault in the export is the
\* caller's to handle.
clearDebugLog ==
  /\ initPc = "done"
  /\ BetweenTurns
  /\ \E ret \in FreeReturns :
       wasm' = IF wasmModule.debug /\ ret = "ok" THEN Cleared(wasm) ELSE wasm
  /\ UNCHANGED <<probe, compiles, variant, compilerVersion, value, wasmModule,
                 wasmMemory, messageQueue, messageInProgress, wasmIsDead,
                 loop, promise, nextId, initPc, settleCount, waiting>>

\* The request kinds compile() submits; compileCode races them against its
\* timeout.
CompileKinds == {"RESET", "LOAD_SOURCE"}

\* The kind of a request that is still queued or in its call, else "none".
KindOf(i) ==
  IF \E k \in 1..Len(messageQueue) : messageQueue[k].id = i
    THEN LET k == CHOOSE k \in 1..Len(messageQueue) : messageQueue[k].id = i
         IN messageQueue[k].type
  ELSE IF \E l \in Loops : loop[l].cur.id = i
    THEN LET l == CHOOSE l \in Loops : loop[l].cur.id = i
         IN loop[l].cur.type
  ELSE "none"

\* Mutant: the caller that times out takes its entry out of the queue.
callerTimeout_Cancel(i) ==
  /\ promise[i] = "pending"
  /\ KindOf(i) \in CompileKinds
  /\ Cardinality({k \in Ids : promise[k] = "pending" /\ ~waiting[k]}) < MaxTimeouts
  /\ waiting[i]
  /\ waiting' = [waiting EXCEPT ![i] = FALSE]
  /\ messageQueue' = SelectSeq(messageQueue, LAMBDA e : e.id # i)
  /\ UNCHANGED <<probe, compiles, variant, compilerVersion, value,
                 wasmModule, wasmMemory, messageInProgress,
                 wasmIsDead, loop, promise, nextId, wasm, initPc, settleCount>>

\* A caller stops waiting for its promise (the compile timeout); the entry
\* stays where it is.
callerTimeout(i) ==
  /\ promise[i] = "pending"
  /\ KindOf(i) \in CompileKinds
  /\ Cardinality({k \in Ids : promise[k] = "pending" /\ ~waiting[k]}) < MaxTimeouts
  /\ waiting[i]
  /\ waiting' = [waiting EXCEPT ![i] = FALSE]
  /\ UNCHANGED <<probe, compiles, variant, compilerVersion, value,
                 wasmModule, wasmMemory, messageQueue,
                 messageInProgress, wasmIsDead, loop, promise, nextId, wasm,
                 initPc, settleCount>>

\* -------------------------------------------------------- sendMessageToWasm
Error(kind) == [kind |-> kind, code |-> 0, reason |-> kind]

\* The WebAssembly.RuntimeError a module export raises when it traps.
RuntimeError(export) == [kind |-> "fault", code |-> 0, reason |-> export]

\* new Error(`... code ${resultCode}: ${errorMessages[resultCode] || ...}`)
StatusError(code) ==
  [kind |-> "status", code |-> code, reason |-> errorMessages(code)]

\* Mutant: the catch block takes every error for a runtime fault.
IsRuntimeError_Any(err) == err.kind # "none"

\* error instanceof WebAssembly.RuntimeError
IsRuntimeError(err) == err.kind = "fault"

\* The finally block begins: the first release it has to make, if any.
FinallyStart(c) ==
  [c EXCEPT !.pc = IF c.messagePtr # "null" THEN "finallyMsg"
                   ELSE IF c.responsePtr # "null" THEN "finallyResp"
                   ELSE "settle"]

\* A throw inside the try block: a runtime fault goes through the fault
\* branch of the catch block, any other error is thrown again at once.
Throw(c, err) ==
  IF IsRuntimeError(err)
    THEN [c EXCEPT !.err = err, !.pc = "catch"]
    ELSE FinallyStart([c EXCEPT !.err = err])

\* return responseObject
Return(c) == FinallyStart([c EXCEPT !.returned = TRUE])

\* Mutant: sendMessageToWasm without its test of wasmIsDead.
EnterCall_NoDeadCheck(entry, dead, module, memory) ==
  LET c == [IdleLoop EXCEPT !.cur = entry] IN
  IF ~module.loaded \/ memory = "null"
    THEN [c EXCEPT !.pc = "settle", !.err = Error("unavailable")]
  ELSE [c EXCEPT !.pc = "allocMsg"]

\* The checks sendMessageToWasm makes before its try block, for the entry
\* the drain loop has just shifted.
EnterCall(entry, dead, module, memory) ==
  LET c == [IdleLoop EXCEPT !.cur = entry] IN
  IF dead
    THEN [c EXCEPT !.pc = "settle", !.err = Error("dead")]
  ELSE IF ~module.loaded \/ memory = "null"
    THEN [c EXCEPT !.pc = "settle", !.err = Error("unavailable")]
  ELSE [c EXCEPT !.pc = "allocMsg"]

\* One turn of the while loop of processMessageQueue: leave when the queue
\* is empty, else shift the head entry and enter sendMessageToWasm. The
\* reaction to the promise settled in the turn before is taken first: it
\* touches nothing the drain loop reads, so their order does not matter.
drainNext(l) ==
  /\ loop[l].pc = "while"
  /\ \A i \in Ids : promise[i] \notin {"resolved", "rejected"}
  /\ IF messageQueue = << >>
       THEN /\ messageInProgress' = FALSE
            /\ loop' = [loop EXCEPT ![l] = IdleLoop]
            /\ UNCHANGED messageQueue
       ELSE /\ messageQueue' = Tail(messageQueue)
            /\ loop' = [loop EXCEPT ![l] =
                 EnterCall(Head(messageQueue), wasmIsDead, wasmModule,
                           wasmMemory)]
            /\ UNCHANGED messageInProgress
  /\ UNCHANGED <<probe, compiles, variant, compilerVersion, value,
                 wasmModule, wasmMemory, wasmIsDead, promise,
                 nextId, wasm, initPc, settleCount, waiting>>

\* messagePtr = allocateMessageBuffer(len); if (!messagePtr) throw
AfterAllocMsg(c, ret, v) ==
  LET d == [c EXCEPT !.nAllocMsg = @ + 1, !.allocMsgRet = ret] IN
  CASE ret = "ptr" ->
         [d EXCEPT !.messagePtr = "ptr",
                   !.pc = IF v = "status" THEN "allocResp" ELSE "invoke"]
    [] ret = "zero" -> Throw([d EXCEPT !.messagePtr = "zero"], Error("alloc"))
    [] OTHER -> Throw(d, RuntimeError("allocateMessageBuffer"))

allocateMessageBuffer(l) ==
  /\ loop[l].pc = "allocMsg"
  /\ \E ret \in AllocReturns :
       /\ loop' = [loop EXCEPT ![l] = AfterAllocMsg(@, ret, variant)]
       /\ wasm' = IF ret = "trap" THEN wasm
                  ELSE [wasm EXCEPT !.msgBuf = (ret = "ptr")]
  /\ UNCHANGED <<probe, compiles, variant, compilerVersion, value,
                 wasmModule, wasmMemory, messageQueue,
                 messageInProgress, wasmIsDead, promise, nextId, initPc,
                 settleCount, waiting>>

\* Mutant: the pointer allocateResponseBuffer returns is not tested.
AfterAllocResp_NoCheck(c, ret) ==
  LET d == [c EXCEPT !.nAllocResp = @ + 1, !.allocRespRet = ret] IN
  CASE ret = "ptr" -> [d EXCEPT !.responsePtr = "ptr", !.pc = "invoke"]
    [] ret = "zero" -> [d EXCEPT !.responsePtr = "zero", !.pc = "invoke"]
    [] OTHER -> Throw(d, RuntimeError("allocateResponseBuffer"))

\* responsePtr = allocateResponseBuffer(size); if (!responsePtr) throw
AfterAllocResp(c, ret) ==
  LET d == [c EXCEPT !.nAllocResp = @ + 1, !.allocRespRet = ret] IN
  CASE ret = "ptr" -> [d EXCEPT !.responsePtr = "ptr", !.pc = "invoke"]
    [] ret = "zero" -> Throw([d EXCEPT !.responsePtr = "zero"], Error("alloc"))
    [] OTHER -> Throw(d, RuntimeError("allocateResponseBuffer"))

allocateResponseBuffer(l) ==
  /\ variant = "status"
  /\ loop[l].pc = "allocResp"
  /\ \E ret \in AllocReturns :
       /\ loop' = [loop EXCEPT ![l] = AfterAllocResp(@, ret)]
       /\ wasm' = IF ret = "trap" THEN wasm
                  ELSE [wasm EXCEPT !.respBuf = (ret = "ptr")]
  /\ UNCHANGED <<probe, compiles, variant, compilerVersion, value,
                 wasmModule, wasmMemory, messageQueue,
                 messageInProgress, wasmIsDead, promise, nextId, initPc,
                 settleCount, waiting>>

\* Where a call goes once the response object is parsed: to the debug log
\* when the module exports it, else it returns the response.
AfterDecode(c, module) ==
  IF module.debug THEN [c EXCEPT !.pc = "debugLog"] ELSE Return(c)

\* Mutant: a response whose status is a protocol-level rejection is thrown
\* as an error.
Decode_ThrowOnRejection(c, raw, module) ==
  CASE raw.form \in {"lenZero", "lenBig"} -> Throw(c, Error("length"))
    [] raw.form = "empty" -> Throw(c, Error("noterm"))
    [] raw.form = "badJson" -> Throw(c, Error("parse"))
    [] raw.status \in {"INVALID_STATE", "INVALID_MESSAGE"} ->
         Throw(c, Error("status"))
    [] OTHER -> [c EXCEPT !.resp = raw, !.pc = "decoded"]

\* The length check and JSON.parse on what the response region holds.
Decode(c, raw, module) ==
  CASE raw.form \in {"lenZero", "lenBig"} -> Throw(c, Error("length"))
    [] raw.form = "empty" -> Throw(c, Error("noterm"))
    [] raw.form = "badJson" -> Throw(c, Error("parse"))
    [] OTHER -> [c EXCEPT !.resp = raw, !.pc = "decoded"]

\* What the module writes for a request it has handled.
Written(form, status, message, id) ==
  [form |-> form, status |-> IF form = "json" THEN status ELSE "none",
   message |-> IF form = "json" THEN message ELSE "none", req |-> id]

\* Mutant: the status code is not looked at.
AfterProcessMessage_IgnoreCode(c, ret, code, raw, module) ==
  LET d == [c EXCEPT !.nInvoke = @ + 1, !.invokeRet = ret, !.raw = raw,
                     !.code = IF ret = "nonzero" THEN code ELSE 0,
                     !.cur.type = "sent"] IN
  CASE ret = "trap" -> Throw(d, RuntimeError("processMessage"))
    [] OTHER ->
         LET e == Decode(d, raw, module) IN
         IF e.pc = "decoded" THEN AfterDecode(e, module) ELSE e

\* resultCode = processMessage(...); the status-code check; the length
\* check; JSON.parse. The message is not read again once it was passed to
\* the entry point: its kind is dropped there.
AfterProcessMessage(c, ret, code, raw, module) ==
  LET d == [c EXCEPT !.nInvoke = @ + 1, !.invokeRet = ret, !.raw = raw,
                     !.code = IF ret = "nonzero" THEN code ELSE 0,
                     !.cur.type = "sent"] IN
  CASE ret = "trap" -> Throw(d, RuntimeError("processMessage"))
    [] ret = "nonzero" -> Throw(d, StatusError(code))
    [] OTHER ->
         LET e == Decode(d, raw, module) IN
         IF e.pc = "decoded" THEN AfterDecode(e, module) ELSE e

processMessage(l) ==
  /\ variant = "status"
  /\ loop[l].pc = "invoke"
  /\ \E ret \in {"trap", "nonzero", "zero"}, code \in 1..MaxStatusCode,
        form \in ResponseForms(variant), ok \in BOOLEAN, added \in BOOLEAN :
       LET h == Handle(wasm.state, loop[l].cur.type, ok)
           raw == IF ret = "zero"
                    THEN Written(form, h.status,
                                 Message(h.status, loop[l].cur.type),
                                 loop[l].cur.id)
                    ELSE NoResponse
       IN /\ ~ok => loop[l].cur.type \in PayloadKinds
          /\ form # "json" => h.status = "SUCCESS"
          /\ loop' = [loop EXCEPT ![l] =
                AfterProcessMessage(@, ret, code, raw, wasmModule)]
          /\ wasm' = Logged(IF ret = "zero"
                                THEN [wasm EXCEPT !.state = h.state]
                                ELSE wasm, wasmModule, added)
  /\ UNCHANGED <<probe, compiles, variant, compilerVersion, value,
                 wasmModule, wasmMemory, messageQueue,
                 messageInProgress, wasmIsDead, promise, nextId, initPc,
                 settleCount, waiting>>

\* responsePtr = processAndRespond(messagePtr, len)   (pointer-return)
AfterProcessAndRespond(c, ret, raw) ==
  LET d == [c EXCEPT !.nInvoke = @ + 1, !.invokeRet = ret, !.raw = raw,
                     !.cur.type = "sent"] IN
  CASE ret = "trap" -> Throw(d, RuntimeError("processAndRespond"))
    [] ret = "null" -> [d EXCEPT !.responsePtr = "zero", !.pc = "freeEarly"]
    [] OTHER -> [d EXCEPT !.responsePtr = "ptr", !.pc = "freeEarly"]

processAndRespond(l) ==
  /\ variant = "pointer"
  /\ loop[l].pc = "invoke"
  /\ \E ret \in {"trap", "null", "ptr"}, form \in ResponseForms(variant),
        ok \in BOOLEAN, added \in BOOLEAN :
       LET h == Handle(wasm.state, loop[l].cur.type, ok)
           raw == IF ret = "ptr"
                    THEN Written(form, h.status,
                                 Message(h.status, loop[l].cur.type),
                                 loop[l].cur.id)
                    ELSE NoResponse
       IN /\ ~ok => loop[l].cur.type \in PayloadKinds
          /\ form # "json" => h.status = "SUCCESS"
          /\ loop' = [loop EXCEPT ![l] = AfterProcessAndRespond(@, ret, raw)]
          /\ wasm' = Logged(IF ret = "ptr"
                                THEN [wasm EXCEPT !.state = h.state,
                                                  !.respBuf = TRUE]
                                ELSE wasm, wasmModule, added)
  /\ UNCHANGED <<probe, compiles, variant, compilerVersion, value,
                 wasmModule, wasmMemory, messageQueue,
                 messageInProgress, wasmIsDead, promise, nextId, initPc,
                 settleCount, waiting>>

\* freeMessageBuffer() right after the entry point returned, then the null
\* check, the terminator scan and JSON.parse   (pointer-return)
AfterFreeEarly(c, ret, module) ==
  LET d == [c EXCEPT !.nFreeMsg = @ + 1] IN
  IF ret = "trap"
    THEN Throw(d, RuntimeError("freeMessageBuffer"))
  ELSE LET e == [d EXCEPT !.messagePtr = "null"] IN
       IF e.responsePtr = "zero"
         THEN Throw(e, Error("null"))
       ELSE LET f == Decode(e, e.raw, module) IN
            IF f.pc = "decoded" THEN [f EXCEPT !.pc = "freeString"] ELSE f

freeEarly(l) ==
  /\ variant = "pointer"
  /\ loop[l].pc = "freeEarly"
  /\ \E ret \in FreeReturns :
       /\ loop' = [loop EXCEPT ![l] = AfterFreeEarly(@, ret, wasmModule)]
       /\ wasm' = IF ret = "ok" THEN [wasm EXCEPT !.msgBuf = FALSE]
                  ELSE [wasm EXCEPT !.freeTrapped = TRUE]
  /\ UNCHANGED <<probe, compiles, variant, compilerVersion, value,
                 wasmModule, wasmMemory, messageQueue,
                 messageInProgress, wasmIsDead, promise, nextId, initPc,
                 settleCount, waiting>>

\* freeWasmString(responsePtr) after JSON.parse   (pointer-return)
AfterFreeString(c, ret, module) ==
  LET d == [c EXCEPT !.nFreeResp = @ + 1] IN
  IF ret = "trap"
    THEN Throw(d, RuntimeError("freeWasmString"))
    ELSE AfterDecode([d EXCEPT !.responsePtr = "null"], module)

freeString(l) ==
  /\ variant = "pointer"
  /\ loop[l].pc = "freeString"
  /\ \E ret \in FreeReturns :
       /\ loop' = [loop EXCEPT ![l] = AfterFreeString(@, ret, wasmModule)]
       /\ wasm' = IF ret = "ok" THEN [wasm EXCEPT !.respBuf = FALSE]
                  ELSE [wasm EXCEPT !.freeTrapped = TRUE]
  /\ UNCHANGED <<probe, compiles, variant, compilerVersion, value,
                 wasmModule, wasmMemory, messageQueue,
                 messageInProgress, wasmIsDead, promise, nextId, initPc,
                 settleCount, waiting>>

\* The debug log after a decoded response: the read (its failure is
\* caught), then clearDebugLog() in the inner finally, then return.
\* Mutant: clearDebugLog is called only after a read that succeeded.
AfterDebugLog_ClearAfterRead(c, readOk, clear) ==
  LET d == [c EXCEPT !.nLog = @ + 1, !.nClear = IF readOk THEN @ + 1 ELSE @,
                     !.logFailed = ~readOk] IN
  IF clear = "trap" THEN Throw(d, RuntimeError("clearDebugLog")) ELSE Return(d)

AfterDebugLog(c, readOk, clear) ==
  LET d == [c EXCEPT !.nLog = @ + 1, !.nClear = @ + 1,
                     !.logFailed = ~readOk] IN
  IF clear = "trap" THEN Throw(d, RuntimeError("clearDebugLog")) ELSE Return(d)

debugLog(l) ==
  /\ loop[l].pc = "debugLog"
  /\ \E readOk \in BOOLEAN, clear \in FreeReturns :
       /\ loop' = [loop EXCEPT ![l] = AfterDebugLog(@, readOk, clear)]
       /\ wasm' = IF clear = "ok" THEN Cleared(wasm) ELSE wasm
  /\ UNCHANGED <<probe, compiles, variant, compilerVersion, value,
                 wasmModule, wasmMemory, messageQueue,
                 messageInProgress, wasmIsDead, promise, nextId, initPc,
                 settleCount, waiting>>

\* The fault branch of the catch block: the liveness flag is turned off
\* and the debug log is read (its failure is caught); the error is thrown
\* again.
AfterCatch(c, module, readOk) ==
  FinallyStart([c EXCEPT !.nLog = IF module.debug THEN @ + 1 ELSE @,
                         !.logFailed = module.debug /\ ~readOk])

\* Mutant: the catch block leaves the liveness flag alone.
DeadAfterCatch_Never(dead, err) == dead

\* wasmIsDead = true, in the fault branch of the catch block
DeadAfterCatch(dead, err) == dead \/ IsRuntimeError(err)

catch(l) ==
  /\ loop[l].pc = "catch"
  /\ \E readOk \in BOOLEAN :
       loop' = [loop EXCEPT ![l] = AfterCatch(@, wasmModule, readOk)]
  /\ wasmIsDead' = DeadAfterCatch(wasmIsDead, loop[l].err)
  /\ UNCHANGED <<probe, compiles, variant, compilerVersion, value,
                 wasmModule, wasmMemory, messageQueue,
                 messageInProgress, promise, nextId, wasm, initPc,
                 settleCount, waiting>>

\* finally: if (messagePtr !== null) wasmModule.freeMessageBuffer(). The
\* status-code variant calls it bare, so a fault in it ends the finally
\* block and becomes the call's outcome; the pointer-return variant wraps
\* it in try/catch.
AfterFinallyMsg(c, ret, v) ==
  LET d == [c EXCEPT !.nFreeMsg = @ + 1] IN
  IF ret = "trap" /\ v = "status"
    THEN [d EXCEPT !.err = RuntimeError("freeMessageBuffer"),
                   !.returned = FALSE, !.pc = "settle"]
    ELSE [d EXCEPT !.pc = IF c.responsePtr # "null" THEN "finallyResp"
                          ELSE "settle"]

\* Mutant: the finally block goes on without the module having released
\* the request region.
finallyMsg_NoRelease(l) ==
  /\ loop[l].pc = "finallyMsg"
  /\ loop' = [loop EXCEPT ![l] = AfterFinallyMsg(@, "ok", variant)]
  /\ UNCHANGED <<probe, compiles, variant, compilerVersion, value,
                 wasmModule, wasmMemory, messageQueue,
                 messageInProgress, wasmIsDead, promise, nextId, wasm,
                 initPc, settleCount, waiting>>

finallyMsg(l) ==
  /\ loop[l].pc = "finallyMsg"
  /\ \E ret \in FreeReturns :
       /\ loop' = [loop EXCEPT ![l] = AfterFinallyMsg(@, ret, variant)]
       /\ wasm' = IF ret = "ok" THEN [wasm EXCEPT !.msgBuf = FALSE]
                  ELSE [wasm EXCEPT !.freeTrapped = TRUE]
  /\ UNCHANGED <<probe, compiles, variant, compilerVersion, value,
                 wasmModule, wasmMemory, messageQueue,
                 messageInProgress, wasmIsDead, promise, nextId, initPc,
                 settleCount, waiting>>

\* finally: if (responsePtr !== null) freeResponseBuffer() (status-code),
\* or freeWasmString(responsePtr) inside try/catch (pointer-return).
AfterFinallyResp(c, ret, v) ==
  LET d == [c EXCEPT !.nFreeResp = @ + 1,
                     !.freeNull = (@ \/ c.responsePtr = "zero")] IN
  IF ret = "trap" /\ v = "status"
    THEN [d EXCEPT !.err = RuntimeError("freeResponseBuffer"),
                   !.returned = FALSE, !.pc = "settle"]
    ELSE [d EXCEPT !.pc = "settle"]

finallyResp(l) ==
  /\ loop[l].pc = "finallyResp"
  /\ \E ret \in FreeReturns :
       /\ loop' = [loop EXCEPT ![l] = AfterFinallyResp(@, ret, variant)]
       /\ wasm' = IF ret = "ok" THEN [wasm EXCEPT !.respBuf = FALSE]
                  ELSE [wasm EXCEPT !.freeTrapped = TRUE]
  /\ UNCHANGED <<probe, compiles, variant, compilerVersion, value,
                 wasmModule, wasmMemory, messageQueue,
                 messageInProgress, wasmIsDead, promise, nextId, initPc,
                 settleCount, waiting>>

\* How the awaited call ended: resolve(result) or reject(error).
Outcome(c) == IF c.returned THEN "resolved" ELSE "rejected"

\* const result = await sendMessageToWasm(message); resolve(result), or
\* reject(error) in the catch; then the loop goes back to its condition.
settle(l) ==
  /\ loop[l].pc = "settle"
  /\ LET c == loop[l]
     IN /\ promise' = [promise EXCEPT ![c.cur.id] = Outcome(c)]
        /\ settleCount' = [settleCount EXCEPT ![c.cur.id] = @ + 1]
        /\ value' = [value EXCEPT ![c.cur.id] =
                       IF c.returned THEN c.resp ELSE NoResponse]
  /\ loop' = [loop EXCEPT ![l] = [IdleLoop EXCEPT !.pc = "while"]]
  /\ UNCHANGED <<probe, compiles, variant, compilerVersion,
                 wasmModule, wasmMemory, messageQueue,
                 messageInProgress, wasmIsDead, nextId, wasm, initPc, waiting>>

\* ------------------------------------------------------------ specification
Next ==
  \/ initializeWasm
  \/ initializeWasmDone
  \/ pageInitialized
  \/ \E type \in Kinds : sendMessageQueued(type)
  \/ getDebugLog
  \/ clearDebugLog
  \/ \E i \in Ids : callerTimeout(i)
  \/ \E i \in Ids : deliver(i)
  \/ \E l \in Loops : drainNext(l)
  \/ \E l \in Loops : allocateMessageBuffer(l)
  \/ \E l \in Loops : allocateResponseBuffer(l)
  \/ \E l \in Loops : processMessage(l)
  \/ \E l \in Loops : processAndRespond(l)
  \/ \E l \in Loops : freeEarly(l)
  \/ \E l \in Loops : freeString(l)
  \/ \E l \in Loops : debugLog(l)
  \/ \E l \in Loops : catch(l)
  \/ \E l \in Loops : finallyMsg(l)
  \/ \E l \in Loops : finallyResp(l)
  \/ \E l \in Loops : settle(l)

Spec == Init /\ [][Next]_vars

\* The steps of the drain loop and of the call it awaits.
LoopStep ==
  \E l \in Loops :
    \/ drainNext(l) \/ allocateMessageBuffer(l) \/ allocateResponseBuffer(l)
    \/ processMessage(l) \/ processAndRespond(l) \/ freeEarly(l)
    \/ freeString(l) \/ debugLog(l) \/ catch(l) \/ finallyMsg(l)
    \/ finallyResp(l) \/ settle(l)

\* The event loop runs every continuation that is ready: the drain loop
\* goes on after each call, and the reaction to a settled promise runs.
\* Callers need not submit anything, and a caller need not time out.
FairSpec ==
  /\ Spec
  /\ WF_vars(LoopStep)
  /\ WF_vars(\E i \in Ids : deliver(i))
  /\ WF_vars(initializeWasmDone)
  /\ WF_vars(pageInitialized)

\* ------------------------------------------------- resetting and reloading
\* resetWasm(): the module-level state goes back to what it is at load. It
\* is exported for the page to call, which as any task runs between the
\* turns of the drain loop. An activation that awaits its call keeps
\* running, and the entries dropped from the queue keep their promises.
\* Nothing refers to the instance any more; the next one is a new one.
resetWasm ==
  /\ BetweenTurns
  /\ wasmModule' = NullModule
  /\ wasmMemory' = "null"
  /\ messageQueue' = << >>
  /\ messageInProgress' = FALSE
  /\ wasmIsDead' = FALSE
  /\ wasm' = FreshModule
  /\ UNCHANGED <<probe, compiles, variant, compilerVersion, value,
                 loop, promise, nextId, initPc, settleCount,
                 waiting>>

\* The page is about to call initializeWasm again, after an earlier call
\* of it has finished.
reinitialize ==
  /\ initPc \in {"done", "failed"}
  /\ nextId <= MaxResetRequests + 1
  /\ initPc' = "start"
  /\ UNCHANGED <<probe, compiles, variant, compilerVersion, value,
                 wasmModule, wasmMemory, messageQueue,
                 messageInProgress, wasmIsDead, loop, promise, nextId, wasm,
                 settleCount, waiting>>

\* The kinds callers submit while the page resets and reloads.
ResetKinds == {"LOAD_SOURCE"}

\* The bridge with a page that resets and reloads it. Callers submit
\* requests of one kind and wait for them.
NextReset ==
  \/ resetWasm
  \/ reinitialize
  \/ initializeWasm
  \/ initializeWasmDone
  \/ pageInitialized
  \/ \E type \in ResetKinds :
       nextId <= MaxResetRequests + 1 /\ sendMessageQueued(type)
  \/ \E i \in Ids : deliver(i)
  \/ LoopStep

SpecReset == Init /\ [][NextReset]_vars

\* ------------------------------------------------------------------ compile
\* Mutant: a task of the page runs wherever caller code can run, also
\* while the drain loop awaits a call.
TaskBoundary_MidTurn == BetweenTurns

\* Nothing of the bridge is left to run: no drain loop is active and no
\* settled promise has its reaction pending. sendMessageToWasm has no await
\* and the module's exports return synchronously, so everything a request
\* sets off runs to its end as promise reactions; the event loop takes the
\* next task of the page (a timer's callback, an input event) only here.
TaskBoundary ==
  /\ \A l \in Loops : loop[l].pc = "idle"
  /\ \A i \in Ids : promise[i] \notin {"resolved", "rejected"}

\* compile() of the interface up to its await:
\* await sendMessageQueued({ type: "RESET" }); timer tells whether the
\* caller has set a timer to race the call against.
CompileStart(c, timer) ==
  /\ initPc = "done"
  /\ compiles[c].pc = "idle"
  /\ \A d \in Compiles : d < c => compiles[d].pc # "idle"
  /\ compiles' = [compiles EXCEPT ![c] =
                    [NoCompile EXCEPT !.pc = "awaitReset", !.reset = nextId,
                                      !.timer = timer]]
  /\ Enqueue("RESET")
  /\ UNCHANGED <<probe, variant, compilerVersion, value, wasmModule,
                 wasmMemory, wasmIsDead, wasm, initPc, settleCount>>

\* A caller of the interface calls compile(code), at any point at which
\* caller code can run, also while an earlier call of compile is under way.
compile(c) ==
  /\ BetweenTurns
  /\ CompileStart(c, "none")

\* compileCode of the page, run by a task (the timer of handleCodeChange,
\* an input event): it sets the 10-second timer and calls compile(code).
compileCode(c) ==
  /\ TaskBoundary
  /\ CompileStart(c, "armed")

\* Mutant: compile submits its LOAD_SOURCE however the RESET promise has
\* settled.
compileResetDone_Regardless(c) ==
  /\ compiles[c].pc = "awaitReset"
  /\ LET r == compiles[c].reset
     IN /\ promise[r] \in {"resolved", "rejected"}
        /\ value' = [value EXCEPT ![r] = NoResponse]
        /\ messageQueue' =
             Append(messageQueue, [id |-> nextId, type |-> "LOAD_SOURCE"])
        /\ promise' = [promise EXCEPT ![r] = "delivered",
                                      ![nextId] = "pending"]
        /\ waiting' = [waiting EXCEPT ![r] = FALSE, ![nextId] = TRUE]
        /\ nextId' = nextId + 1
        /\ processMessageQueue(messageQueue')
        /\ compiles' = [compiles EXCEPT ![c].pc = "awaitLoad",
                                        ![c].reset = 0, ![c].load = nextId]
  /\ UNCHANGED <<probe, variant, compilerVersion, wasmModule, wasmMemory,
                 wasmIsDead, wasm, initPc, settleCount>>

\* compile() after its await of the RESET promise:
\* return sendMessageQueued({ type: "LOAD_SOURCE", source: code }); the
\* response to RESET is not looked at, and a rejection is thrown on, which
\* rejects the promise compile returned.
compileResetDone(c) ==
  /\ compiles[c].pc = "awaitReset"
  /\ LET r == compiles[c].reset
     IN /\ promise[r] \in {"resolved", "rejected"}
        /\ value' = [value EXCEPT ![r] = NoResponse]
        /\ IF promise[r] = "resolved"
             THEN /\ messageQueue' =
                       Append(messageQueue,
                              [id |-> nextId, type |-> "LOAD_SOURCE"])
                  /\ promise' = [promise EXCEPT ![r] = "delivered",
                                                ![nextId] = "pending"]
                  /\ waiting' = [waiting EXCEPT ![r] = FALSE,
                                                ![nextId] = TRUE]
                  /\ nextId' = nextId + 1
                  /\ processMessageQueue(messageQueue')
                  /\ compiles' = [compiles EXCEPT ![c].pc = "awaitLoad",
                                                  ![c].reset = 0,
                                                  ![c].load = nextId]
             ELSE /\ promise' = [promise EXCEPT ![r] = "delivered"]
                  /\ waiting' = [waiting EXCEPT ![r] = FALSE]
                  /\ compiles' = [compiles EXCEPT ![c].pc = "rejected",
                                                  ![c].reset = 0]
                  /\ UNCHANGED <<messageQueue, messageInProgress, loop,
                                 nextId>>
  /\ UNCHANGED <<probe, variant, compilerVersion, wasmModule, wasmMemory,
                 wasmIsDead, wasm, initPc, settleCount>>

\* The promise compile returned settles as the LOAD_SOURCE promise does;
\* a resolution hands the caller the response to its LOAD_SOURCE.
compileDone(c) ==
  /\ compiles[c].pc = "awaitLoad"
  /\ LET r == compiles[c].load
     IN /\ promise[r] \in {"resolved", "rejected"}
        /\ compiles' = [compiles EXCEPT
             ![c].pc = IF promise[r] = "resolved" THEN "resolved"
                                                  ELSE "rejected",
             ![c].load = 0,
             ![c].status = IF promise[r] = "resolved" THEN value[r].status
                                                      ELSE "none"]
        /\ promise' = [promise EXCEPT ![r] = "delivered"]
        /\ waiting' = [waiting EXCEPT ![r] = FALSE]
        /\ value' = [value EXCEPT ![r] = NoResponse]
  /\ UNCHANGED <<probe, variant, compilerVersion, wasmModule, wasmMemory,
                 messageQueue, messageInProgress, wasmIsDead, loop, nextId,
                 wasm, initPc, settleCount>>

\* compile c has submitted a request that is not settled and delivered.
Outstanding(c) == compiles[c].pc \in {"awaitReset", "awaitLoad"}

\* The 10-second timer of compileCode runs out: its callback, a task,
\* rejects the timeout promise, which abandons the compile if the race
\* is still open. compileCode never clears the timer.
compilationTimeout(c) ==
  /\ TaskBoundary
  /\ compiles[c].timer = "armed"
  /\ compiles' = [compiles EXCEPT ![c].timer = "none",
                                  ![c].abandoned = Outstanding(c)]
  /\ UNCHANGED <<probe, variant, compilerVersion, value, wasmModule,
                 wasmMemory, messageQueue, messageInProgress, wasmIsDead,
                 loop, promise, nextId, wasm, initPc, settleCount, waiting>>

\* The page: it initializes the bridge and then every request is one of a
\* compile that compileCode has started.
NextPage ==
  \/ initializeWasm
  \/ initializeWasmDone
  \/ pageInitialized
  \/ \E c \in Compiles : compileCode(c)
  \/ \E c \in Compiles : compileResetDone(c)
  \/ \E c \in Compiles : compileDone(c)
  \/ \E c \in Compiles : compilationTimeout(c)
  \/ LoopStep

SpecPage == Init /\ [][NextPage]_vars

\* Callers that call compile() of the interface whenever they can run.
NextCompile ==
  \/ initializeWasm
  \/ initializeWasmDone
  \/ pageInitialized
  \/ \E c \in Compiles : compile(c)
  \/ \E c \in Compiles : compileResetDone(c)
  \/ \E c \in Compiles : compileDone(c)
  \/ LoopStep

SpecCompile == Init /\ [][NextCompile]_vars

\* ---------------------------------------- reading the length-prefixed reply
\* responseBufferSize of sendMessageToWasm
responseBufferSize == 256 * 1024

\* The values of the four bytes of a prefix, lowest byte first. They reach
\* 0, 1, the largest length accepted, the lengths just above it, the size
\* of the region and lengths far above it.
PrefixByte0 == {0, 1, 252, 253, 255}
PrefixByte1 == {0, 255}
PrefixByte2 == {0, 3, 4}
PrefixByte3 == {0, 1, 127}

\* DataView.getUint32(0, true): the unsigned value of four bytes, lowest
\* byte first
getUint32(bytes) ==
  bytes[1] + 256 * bytes[2] + 65536 * bytes[3] + 16777216 * bytes[4]

\* A length check that compares with the size of the whole region.
InvalidLength_WholeRegion(responseLen) ==
  responseLen = 0 \/ responseLen > responseBufferSize

\* The check of the prefix: responseLen === 0 || responseLen >
\* responseBufferSize - 4
InvalidLength(responseLen) ==
  responseLen = 0 \/ responseLen > responseBufferSize - 4

\* The read of the reply after the entry point returned 0: the error
\* thrown, and the number of bytes after the prefix handed to the decoder.
ReadResponse(bytes) ==
  LET responseLen == getUint32(bytes) IN
  IF InvalidLength(responseLen)
  THEN [err |-> "length", read |-> 0]
  ELSE [err |-> "none", read |-> responseLen]

NoOutput == [err |-> "none", read |-> 0]

\* The module has written a reply whose prefix holds any of the bytes.
InitLength ==
  /\ BridgeInit
  /\ variant = "status"
  /\ \E b0 \in PrefixByte0, b1 \in PrefixByte1, b2 \in PrefixByte2,
        b3 \in PrefixByte3 :
       probe = [op |-> "length", pc |-> "written",
                bytes |-> <<b0, b1, b2, b3>>, out |-> NoOutput]

readResponse ==
  /\ probe.op = "length"
  /\ probe.pc = "written"
  /\ probe' = [probe EXCEPT !.pc = "read", !.out = ReadResponse(probe.bytes)]
  /\ UNCHANGED bridgeVars

NextLength == readResponse

SpecLength == InitLength /\ [][NextLength]_vars

\* ---------------------------------- positions in type and hover queries
\* lines and columns of the editor positions asked about
MaxLine == 5
MaxColumn == 5

\* createTypeHintTooltip: the 0-based line and the column of a document
\* position; CodeMirror numbers lines from 1, line.number - 1 is handed on.
EditorPosition(number, column) == [line |-> number - 1, column |-> column]

\* getHoverInformation: wasmInterface.getHoverInfo(identifier, line + 1,
\* column)
getHoverInformation(line, column) == [line |-> line + 1, ch |-> column]

\* createWasmInterface().getHoverInfo: the request has line and ch + 1
getHoverInfo(line, ch) ==
  [type |-> "GET_HOVER_INFO", line |-> line, ch |-> ch + 1]

\* getTypeInformation: wasmInterface.getTypeInfo(identifier, line, column)
getTypeInformation(line, column) == [line |-> line, ch |-> column]

\* createWasmInterface().getTypeInfo: the request has line and ch
getTypeInfo(line, ch) ==
  [type |-> "GET_TYPE_INFO", line |-> line, ch |-> ch]

NoRequest == [type |-> "none", line |-> 0, ch |-> 0]

\* The pointer rests on any position of the document.
InitPosition ==
  /\ BridgeInit
  /\ \E number \in 1..(MaxLine + 1), column \in 0..MaxColumn :
       probe = [op |-> "position", pc |-> "editor",
                pos |-> EditorPosition(number, column), request |-> NoRequest]

\* The hover tooltip asks for the position.
hoverRequest ==
  /\ probe.op = "position"
  /\ probe.pc = "editor"
  /\ LET a == getHoverInformation(probe.pos.line, probe.pos.column) IN
     probe' = [probe EXCEPT !.pc = "sent",
                            !.request = getHoverInfo(a.line, a.ch)]
  /\ UNCHANGED bridgeVars

\* The type tooltip asks for the position.
typeRequest ==
  /\ probe.op = "position"
  /\ probe.pc = "editor"
  /\ LET a == getTypeInformation(probe.pos.line, probe.pos.column) IN
     probe' = [probe EXCEPT !.pc = "sent",
                            !.request = getTypeInfo(a.line, a.ch)]
  /\ UNCHANGED bridgeVars

NextPosition == hoverRequest \/ typeRequest

SpecPosition == InitPosition /\ [][NextPosition]_vars

\* -------------------------------------------- loading a source with errors
\* errors the compiler finds in a source
MaxErrors == 2

\* No Diagnostics object in a response.
NoDiagnostics == [present |-> FALSE, errors |-> 0]

\* The Diagnostics object: its summary counts the errors of the source.
Diagnostics(errors) == [present |-> TRUE, errors |-> errors]

\* Mutant: the module refuses a source in which the compiler finds errors.
LoadSource_StopOnErrors(state, ok, errors) ==
  LET h == Handle(state, "LOAD_SOURCE", ok /\ errors = 0) IN
  [status |-> h.status, state |-> h.state,
   message |-> Message(h.status, "LOAD_SOURCE"),
   diagnostics |-> IF h.status = "SUCCESS" THEN Diagnostics(errors)
                                           ELSE NoDiagnostics]

\* LOAD_SOURCE: the module runs through all compiler stages and collects
\* the diagnostics; the errors it finds in the source do not change the
\* status. ok: the request carries a source the module can read.
LoadSource(state, ok, errors) ==
  LET h == Handle(state, "LOAD_SOURCE", ok) IN
  [status |-> h.status, state |-> h.state,
   message |-> Message(h.status, "LOAD_SOURCE"),
   diagnostics |-> IF h.status = "SUCCESS" THEN Diagnostics(errors)
                                           ELSE NoDiagnostics]

NoAnswer ==
  [status |-> "none", state |-> "none", message |-> "none",
   diagnostics |-> NoDiagnostics]

\* The module is in any of its states, and a source has any number of
\* errors.
InitKeepGoing ==
  /\ BridgeInit
  /\ \E state \in {"START", "READY", "LOADED"}, ok \in BOOLEAN,
        errors \in 0..MaxErrors :
       probe = [op |-> "keepGoing", pc |-> "start", from |-> state,
                ok |-> ok, errors |-> errors, load |-> NoAnswer,
                kind |-> "none", query |-> NoAnswer]

\* LOAD_SOURCE is sent.
loadSource ==
  /\ probe.op = "keepGoing"
  /\ probe.pc = "start"
  /\ probe' = [probe EXCEPT
       !.pc = "loaded",
       !.load = LoadSource(probe.from, probe.ok, probe.errors)]
  /\ UNCHANGED bridgeVars

\* A query is sent next.
query ==
  /\ probe.op = "keepGoing"
  /\ probe.pc = "loaded"
  /\ \E kind \in QueryKinds, ok \in BOOLEAN :
       /\ ~ok => kind \in PayloadKinds
       /\ LET h == Handle(probe.load.state, kind, ok) IN
          probe' = [probe EXCEPT
            !.pc = "queried", !.kind = kind,
            !.query = [NoAnswer EXCEPT !.status = h.status,
                                       !.state = h.state]]
  /\ UNCHANGED bridgeVars

NextKeepGoing == loadSource \/ query

SpecKeepGoing == InitKeepGoing /\ [][NextKeepGoing]_vars

\* --------------------------------------------------------- parseDiagnostics
\* entries of diagnostics.list
MaxDiagnostics == 2

\* What typeof tells of a field of a region: "number", or anything else
\* (the field is missing, or it holds a string, null, an object).
FieldKinds == {"number", "other"}

\* diag.region is missing or null
NoRegion ==
  [present |-> FALSE, start_line |-> "other", start_column |-> "other",
   end_line |-> "other", end_column |-> "other"]

\* The regions an entry of the list can carry.
Regions ==
  {NoRegion} \cup
  [present : {TRUE}, start_line : FieldKinds, start_column : FieldKinds,
   end_line : FieldKinds, end_column : FieldKinds]

\* What the result of a compile has for diagnostics: nothing, an object
\* without a list, one whose list is no array, or one with a list.
ResultShapes == {"noDiagnostics", "noList", "notArray", "array"}

\* Mutant: only the start of the region is tested.
HasValidRegion_StartOnly(diag) ==
  /\ diag.region.present
  /\ diag.region.start_line = "number"
  /\ diag.region.start_column = "number"

\* diag.region && typeof diag.region.start_line === "number" && ... , the
\* test of the four fields
HasValidRegion(diag) ==
  /\ diag.region.present
  /\ diag.region.start_line = "number"
  /\ diag.region.start_column = "number"
  /\ diag.region.end_line = "number"
  /\ diag.region.end_column = "number"

\* parsedDiag: severity and message and the four fields of the region
ParsedDiag(diag) == [message |-> diag.message, region |-> diag.region]

\* for (const diag of list): push parsedDiag if the region is valid, else
\* skip the entry
RECURSIVE ParseList(_, _)
ParseList(list, diagnostics) ==
  IF list = << >> THEN diagnostics
  ELSE ParseList(Tail(list),
                 IF HasValidRegion(Head(list))
                   THEN Append(diagnostics, ParsedDiag(Head(list)))
                   ELSE diagnostics)

\* parseDiagnostics(result)
parseDiagnostics(shape, list) ==
  IF shape = "array" THEN ParseList(list, << >>) ELSE << >>

\* The lists of n entries; the message of an entry tells which it is.
RECURSIVE Lists(_)
Lists(n) ==
  IF n = 0 THEN {<< >>}
  ELSE {Append(l, [message |-> n, region |-> r]) :
          l \in Lists(n - 1), r \in Regions}

\* A result of compile of any shape, with any list of entries.
InitDiagnostics ==
  /\ BridgeInit
  /\ variant = "status"
  /\ \E shape \in ResultShapes, n \in 0..MaxDiagnostics :
       \E list \in Lists(n) :
         /\ shape # "array" => n = 0
         /\ probe = [op |-> "diagnostics", pc |-> "result", shape |-> shape,
                     list |-> list, out |-> << >>]

\* compileCode has parseDiagnostics read the result.
parseResult ==
  /\ probe.op = "diagnostics"
  /\ probe.pc = "result"
  /\ probe' = [probe EXCEPT
       !.pc = "parsed", !.out = parseDiagnostics(probe.shape, probe.list)]
  /\ UNCHANGED bridgeVars

NextDiagnostics == parseResult

SpecDiagnostics == InitDiagnostics /\ [][NextDiagnostics]_vars

\* ------------------------------------------------------ encoding a request
\* characters of a source string
MaxChars == 2

\* The characters of a string of a request, as UTF-16 code units: a letter
\* a, a letter n, a double quote, a backslash, a line feed, a letter
\* outside ASCII, and a surrogate that has no partner.
Chars == {"a", "n", "QUOTE", "BACKSLASH", "LF", "EACUTE", "SURROGATE"}

\* The strings of at most n characters.
RECURSIVE Strings(_)
Strings(n) ==
  IF n = 0 THEN {<< >>}
  ELSE LET shorter == Strings(n - 1)
       IN shorter \cup {Append(s, c) : s \in shorter, c \in Chars}

\* The optional fields of WasmMessage, in the order the interface writes
\* them, and those that hold a number.
OptionalKeys == <<"source", "identifier", "line", "ch">>
NumberKeys == {"line", "ch"}

\* An optional field that the request does not have, one that holds a
\* string, one that holds a number.
Absent == [present |-> FALSE, text |-> << >>, number |-> 0]
StringField(s) == [present |-> TRUE, text |-> s, number |-> 0]
NumberField(n) == [present |-> TRUE, text |-> << >>, number |-> n]

\* Mutant: a surrogate without partner is written as it is, as
\* JSON.stringify did before it was made well-formed.
QuoteChar_RawSurrogate(c) ==
  CASE c = "QUOTE" -> <<"BACKSLASH", "QUOTE">>
    [] c = "BACKSLASH" -> <<"BACKSLASH", "BACKSLASH">>
    [] c = "LF" -> <<"BACKSLASH", "n">>
    [] OTHER -> <<c>>

\* JSON.stringify of one character of a string: the quote, the backslash
\* and control characters are escaped, a lone surrogate is written as a
\* \udXXX escape, every other character stands for itself.
QuoteChar(c) ==
  CASE c = "QUOTE" -> <<"BACKSLASH", "QUOTE">>
    [] c = "BACKSLASH" -> <<"BACKSLASH", "BACKSLASH">>
    [] c = "LF" -> <<"BACKSLASH", "n">>
    [] c = "SURROGATE" -> <<"BACKSLASH", "u", "d", "8", "0", "0">>
    [] OTHER -> <<c>>

\* JSON.stringify of a string, without the quotes around it.
RECURSIVE Quote(_)
Quote(s) == IF s = << >> THEN << >> ELSE QuoteChar(Head(s)) \o Quote(Tail(s))

\* JSON.stringify of a non-negative integer: its decimal digits.
RECURSIVE Digits(_)
Digits(n) ==
  IF n < 10 THEN <<48 + n>> ELSE Digits(n \div 10) \o <<48 + (n % 10)>>

\* TextEncoder.encode of one character: its UTF-8 bytes; a surrogate
\* without partner becomes U+FFFD.
Utf8(c) ==
  CASE c = "a" -> <<97>>
    [] c = "n" -> <<110>>
    [] c = "u" -> <<117>>
    [] c = "d" -> <<100>>
    [] c = "8" -> <<56>>
    [] c = "0" -> <<48>>
    [] c = "QUOTE" -> <<34>>
    [] c = "BACKSLASH" -> <<92>>
    [] c = "LF" -> <<10>>
    [] c = "EACUTE" -> <<195, 169>>
    [] OTHER -> <<239, 191, 189>>

\* new TextEncoder().encode(text)
RECURSIVE encode(_)
encode(text) ==
  IF text = << >> THEN << >> ELSE Utf8(Head(text)) \o encode(Tail(text))

\* One member of the JSON object: nothing for a key the message does not
\* have, else the key and the bytes of its value.
Member(message, key) ==
  IF ~message[key].present THEN << >>
  ELSE <<[key |-> key, word |-> "none",
          bytes |-> IF key \in NumberKeys
                      THEN Digits(message[key].number)
                      ELSE encode(Quote(message[key].text))]>>

\* messageStr = JSON.stringify(message); messageBytes = encode(messageStr):
\* the members of the object in the order of its keys. The type is one of
\* a few ASCII words and is kept as the word; braces, commas and the quoted
\* keys are left out.
messageBytes(message) ==
  <<[key |-> "type", word |-> message.type, bytes |-> << >>]>> \o
  Member(message, OptionalKeys[1]) \o Member(message, OptionalKeys[2]) \o
  Member(message, OptionalKeys[3]) \o Member(message, OptionalKeys[4])

\* TextDecoder.decode: the characters of a sequence of UTF-8 bytes.
RECURSIVE decode(_)
decode(bytes) ==
  IF bytes = << >> THEN << >>
  ELSE LET b == Head(bytes)
           rest(n) == SubSeq(bytes, n + 1, Len(bytes))
       IN CASE b = 97 -> <<"a">> \o decode(rest(1))
            [] b = 110 -> <<"n">> \o decode(rest(1))
            [] b = 117 -> <<"u">> \o decode(rest(1))
            [] b = 100 -> <<"d">> \o decode(rest(1))
            [] b = 56 -> <<"8">> \o decode(rest(1))
            [] b = 48 -> <<"0">> \o decode(rest(1))
            [] b = 34 -> <<"QUOTE">> \o decode(rest(1))
            [] b = 92 -> <<"BACKSLASH">> \o decode(rest(1))
            [] b = 10 -> <<"LF">> \o decode(rest(1))
            [] b = 195 /\ Len(bytes) >= 2 /\ bytes[2] = 169 ->
                 <<"EACUTE">> \o decode(rest(2))
            [] b = 239 /\ Len(bytes) >= 3 -> <<"U+FFFD">> \o decode(rest(3))
            [] OTHER -> <<"U+FFFD">> \o decode(rest(1))

\* JSON.parse of the inside of a string: escapes are resolved; a bare
\* quote or control character, or an unknown escape, is a syntax error.
RECURSIVE Unquote(_)
Unquote(text) ==
  IF text = << >> THEN << >>
  ELSE LET rest(n) == SubSeq(text, n + 1, Len(text)) IN
       CASE Head(text) = "BACKSLASH" /\ Len(text) >= 2 ->
              ( CASE text[2] = "QUOTE" -> <<"QUOTE">> \o Unquote(rest(2))
                  [] text[2] = "BACKSLASH" ->
                       <<"BACKSLASH">> \o Unquote(rest(2))
                  [] text[2] = "n" -> <<"LF">> \o Unquote(rest(2))
                  [] text[2] = "u" /\ Len(text) >= 6 ->
                       <<"SURROGATE">> \o Unquote(rest(6))
                  [] OTHER -> <<"SyntaxError">> )
         [] Head(text) \in {"BACKSLASH", "QUOTE", "LF"} -> <<"SyntaxError">>
         [] OTHER -> <<Head(text)>> \o Unquote(rest(1))

\* JSON.parse of a number: the value of its decimal digits.
RECURSIVE Value(_)
Value(digits) ==
  IF digits = << >> THEN 0
  ELSE 10 * Value(SubSeq(digits, 1, Len(digits) - 1))
       + (digits[Len(digits)] - 48)

\* The value of a key in the decoded object: absent if no member has the
\* key.
Field(encoded, key) ==
  IF \A k \in 1..Len(encoded) : encoded[k].key # key THEN Absent
  ELSE LET k == CHOOSE k \in 1..Len(encoded) : encoded[k].key = key IN
       IF key \in NumberKeys THEN NumberField(Value(encoded[k].bytes))
       ELSE StringField(Unquote(decode(encoded[k].bytes)))

\* JSON.parse(new TextDecoder().decode(bytes)): the structured value the
\* receiver gets.
Decoded(encoded) ==
  [type |-> encoded[1].word, source |-> Field(encoded, "source"),
   identifier |-> Field(encoded, "identifier"),
   line |-> Field(encoded, "line"), ch |-> Field(encoded, "ch")]

\* The kinds of the requests that differ in their fields.
EncodedKinds == {"RESET", "LOAD_SOURCE", "GET_HOVER_INFO"}

\* A request with any of its optional fields, a source of any characters,
\* a one-letter identifier, a line and a column of the document.
InitEncode ==
  /\ BridgeInit
  /\ variant = "status"
  /\ \E type \in EncodedKinds,
        source \in {Absent} \cup {StringField(s) : s \in Strings(MaxChars)},
        identifier \in {Absent, StringField(<<"a">>)},
        line \in {Absent} \cup {NumberField(n) : n \in 0..MaxLine},
        ch \in {Absent} \cup {NumberField(n) : n \in 1..(MaxColumn + 1)} :
       probe = [op |-> "encode", pc |-> "message",
                message |-> [type |-> type, source |-> source,
                             identifier |-> identifier, line |-> line,
                             ch |-> ch],
                bytes |-> << >>,
                decoded |-> [type |-> "none", source |-> Absent,
                             identifier |-> Absent, line |-> Absent,
                             ch |-> Absent]]

\* sendMessageToWasm encodes the message.
encodeMessage ==
  /\ probe.op = "encode"
  /\ probe.pc = "message"
  /\ probe' = [probe EXCEPT !.pc = "encoded",
                            !.bytes = messageBytes(probe.message)]
  /\ UNCHANGED bridgeVars

\* The receiver decodes the bytes.
decodeMessage ==
  /\ probe.op = "encode"
  /\ probe.pc = "encoded"
  /\ probe' = [probe EXCEPT !.pc = "decoded",
                            !.decoded = Decoded(probe.bytes)]
  /\ UNCHANGED bridgeVars

NextEncode == encodeMessage \/ decodeMessage

SpecEncode == InitEncode /\ [][NextEncode]_vars

\* ------------------------------------------------------------ REPL history
\* entries of a history
MaxEntries == 3

\* Commands as they are typed: two commands, one of them also with a blank
\* after it, a blank, and the empty string.
Commands == {"a", "b"}
Typed == Commands \cup {"a ", " ", ""}

\* command.trim()
Trim(command) ==
  CASE command = "a " -> "a"
    [] command = " " -> ""
    [] OTHER -> command

\* What the user was typing: nothing or something.
Inputs == {"", "t"}

\* currentIndex: null means not in history
NullIndex == -1

\* createEmptyHistory()
createEmptyHistory ==
  [entries |-> << >>, currentIndex |-> NullIndex, temporaryInput |-> ""]

\* The histories of at most n entries.
RECURSIVE Histories(_)
Histories(n) ==
  IF n = 0 THEN {<< >>}
  ELSE LET shorter == Histories(n - 1)
       IN shorter \cup {Append(h, c) : h \in shorter, c \in Commands}

\* The HistoryState values: currentIndex is null or the index of an entry.
HistoryStates ==
  {s \in [entries : Histories(MaxEntries),
          currentIndex : NullIndex..(MaxEntries - 1),
          temporaryInput : Inputs] : s.currentIndex < Len(s.entries)}

\* No state in a result.
NoState == [entries |-> << >>, currentIndex |-> NullIndex,
            temporaryInput |-> "none"]

\* What a call leaves behind: the object it was given as it is after the
\* call, and what it returned: success or an error, whether the state it
\* returned is the object it was given ("given"), a new object ("new") or
\* there is none ("none"), the value of that state, and what to display.
Returned(given, success, object, state, display) ==
  [given |-> given, success |-> success, object |-> object,
   state |-> state, display |-> display]

Failure(given) == Returned(given, FALSE, "none", NoState, "")

\* Mutant: the entry is pushed onto the entries of the given state, which
\* is returned.
addToHistory_InPlace(state, command) ==
  IF Trim(command) = "" THEN Failure(state)
  ELSE LET pushed == [state EXCEPT
                        !.entries = Append(@, Trim(command)),
                        !.currentIndex = NullIndex, !.temporaryInput = ""]
       IN Returned(pushed, TRUE, "given", pushed, "")

\* addToHistory(state, command)
addToHistory(state, command) ==
  IF command = "" \/ Trim(command) = "" THEN Failure(state)
  ELSE IF state.entries # << >> /\
          state.entries[Len(state.entries)] = Trim(command)
    THEN Returned(state, TRUE, "new",
                  [state EXCEPT !.currentIndex = NullIndex,
                                !.temporaryInput = ""], "")
  ELSE Returned(state, TRUE, "new",
                [entries |-> Append(state.entries, Trim(command)),
                 currentIndex |-> NullIndex, temporaryInput |-> ""], "")

\* state.entries[index]?.command ?? ''   (index counts from 0)
CommandAt(state, index) ==
  IF index >= 0 /\ index < Len(state.entries) THEN state.entries[index + 1]
                                              ELSE ""

\* Mutant: every step back saves the input it is given.
navigateBackward_SaveAlways(state, currentInput) ==
  IF Len(state.entries) = 0 THEN Failure(state)
  ELSE IF state.currentIndex = NullIndex
    THEN Returned(state, TRUE, "new",
                  [state EXCEPT !.currentIndex = Len(state.entries) - 1,
                                !.temporaryInput = currentInput],
                  CommandAt(state, Len(state.entries) - 1))
  ELSE IF state.currentIndex > 0
    THEN Returned(state, TRUE, "new",
                  [state EXCEPT !.currentIndex = @ - 1,
                                !.temporaryInput = currentInput],
                  CommandAt(state, state.currentIndex - 1))
  ELSE Failure(state)

\* navigateBackward(state, currentInput)
navigateBackward(state, currentInput) ==
  IF Len(state.entries) = 0 THEN Failure(state)
  ELSE IF state.currentIndex = NullIndex
    THEN Returned(state, TRUE, "new",
                  [state EXCEPT !.currentIndex = Len(state.entries) - 1,
                                !.temporaryInput = currentInput],
                  CommandAt(state, Len(state.entries) - 1))
  ELSE IF state.currentIndex > 0
    THEN Returned(state, TRUE, "new",
                  [state EXCEPT !.currentIndex = @ - 1],
                  CommandAt(state, state.currentIndex - 1))
  ELSE Failure(state)

\* Mutant: stepping past the newest entry keeps the saved input.
navigateForward_KeepInput(state) ==
  IF state.currentIndex = NullIndex THEN Failure(state)
  ELSE IF state.currentIndex < Len(state.entries) - 1
    THEN Returned(state, TRUE, "new",
                  [state EXCEPT !.currentIndex = @ + 1],
                  CommandAt(state, state.currentIndex + 1))
  ELSE Returned(state, TRUE, "new",
                [state EXCEPT !.currentIndex = NullIndex],
                state.temporaryInput)

\* navigateForward(state)
navigateForward(state) ==
  IF state.currentIndex = NullIndex THEN Failure(state)
  ELSE IF state.currentIndex < Len(state.entries) - 1
    THEN Returned(state, TRUE, "new",
                  [state EXCEPT !.currentIndex = @ + 1],
                  CommandAt(state, state.currentIndex + 1))
  ELSE Returned(state, TRUE, "new",
                [state EXCEPT !.currentIndex = NullIndex,
                              !.temporaryInput = ""],
                state.temporaryInput)

\* clearHistory(_state)
clearHistory(state) == Returned(state, TRUE, "new", createEmptyHistory, "")

\* the reduce of deduplicateHistory: an entry is pushed onto the
\* accumulator unless its command is that of the last one pushed
RECURSIVE Deduplicated(_, _)
Deduplicated(entries, acc) ==
  IF entries = << >> THEN acc
  ELSE Deduplicated(Tail(entries),
                    IF acc = << >> \/ acc[Len(acc)] # Head(entries)
                      THEN Append(acc, Head(entries)) ELSE acc)

\* deduplicateHistory(state)
deduplicateHistory(state) ==
  Returned(state, TRUE, "new",
           [entries |-> Deduplicated(state.entries, << >>),
            currentIndex |-> NullIndex, temporaryInput |-> ""], "")

\* Math.max(0, n)
Max0(n) == IF n > 0 THEN n ELSE 0

\* limitHistorySize(state, maxSize)
limitHistorySize(state, maxSize) ==
  IF maxSize <= 0 THEN clearHistory(state)
  ELSE IF Len(state.entries) <= maxSize
    THEN Returned(state, TRUE, "given", state, "")
  ELSE LET trimmed == SubSeq(state.entries,
                             Len(state.entries) - maxSize + 1,
                             Len(state.entries))
           indexAdjustment == Len(state.entries) - Len(trimmed)
       IN Returned(state, TRUE, "new",
                   [entries |-> trimmed,
                    currentIndex |->
                      IF state.currentIndex = NullIndex THEN NullIndex
                      ELSE Max0(state.currentIndex - indexAdjustment),
                    temporaryInput |-> state.temporaryInput], "")

\* A history operation is about to be called with any state.
InitHistory ==
  /\ BridgeInit
  /\ variant = "status"
  /\ \E state \in HistoryStates :
       probe = [op |-> "history", pc |-> "given", call |-> "none",
                state |-> state, out |-> Failure(state)]

\* The call of an operation: what it was called with stays in state, what
\* it left and returned goes to out.
Called(name, out) ==
  /\ probe.op = "history"
  /\ probe.pc = "given"
  /\ probe' = [probe EXCEPT !.pc = "returned", !.call = name, !.out = out]
  /\ UNCHANGED bridgeVars

callAddToHistory ==
  \E command \in Typed :
    Called("addToHistory", addToHistory(probe.state, command))

callNavigateBackward ==
  \E currentInput \in Inputs :
    Called("navigateBackward", navigateBackward(probe.state, currentInput))

callNavigateForward ==
  Called("navigateForward", navigateForward(probe.state))

callClearHistory == Called("clearHistory", clearHistory(probe.state))

callDeduplicateHistory ==
  Called("deduplicateHistory", deduplicateHistory(probe.state))

callLimitHistorySize ==
  \E maxSize \in (-1)..MaxEntries :
    Called("limitHistorySize", limitHistorySize(probe.state, maxSize))

NextHistory ==
  \/ callAddToHistory
  \/ callNavigateBackward
  \/ callNavigateForward
  \/ callClearHistory
  \/ callDeduplicateHistory
  \/ callLimitHistorySize

SpecHistory == InitHistory /\ [][NextHistory]_vars

\* The bridge that resets and reloads, where the drain loops go on, the
\* caller's reactions run and initializeWasm continues after its await.
FairSpecReset ==
  /\ SpecReset
  /\ WF_vars(LoopStep)
  /\ WF_vars(\E i \in Ids : deliver(i))
  /\ WF_vars(initializeWasmDone)
  /\ WF_vars(pageInitialized)

\* ------------------------------------------- the page and its REPL session
\* crash restarts that wait for their timer at the same time
MaxRestarts == 1

\* Whether a kind is applicable in a protocol state of a module with the
\* REPL: INIT_REPL enters the REPL from READY, REPL_STEP and CLEAR_REPL
\* need the REPL, RESET leads back to READY from every initialized state.
ReplApplicable(state, type) ==
  CASE type = "INIT_REPL" -> state = "READY"
    [] type \in {"REPL_STEP", "CLEAR_REPL"} -> state = "REPL_ACTIVE"
    [] type = "RESET" -> state \in {"READY", "LOADED", "REPL_ACTIVE"}
    [] OTHER -> Applicable(state, type)

\* The protocol state an accepted request leads to.
ReplTarget(state, type) ==
  IF type = "INIT_REPL" THEN "REPL_ACTIVE" ELSE Target(state, type)

\* The kinds that the module can answer with ERROR when they apply.
FallibleKinds == {"LOAD_SOURCE", "INIT_REPL", "REPL_STEP"}

\* What a call of the interface can come to, for a request of a kind sent
\* to a module in a protocol state: the promise rejects (a fault of the
\* bridge, a dead module) and the module is as it was, or it resolves with
\* a response of the module, which is then in the state the request led to.
Answers(state, type) ==
  {[settled |-> "rejected", status |-> "none", module |-> state]} \cup
  IF ~ReplApplicable(state, type)
    THEN {[settled |-> "resolved", status |-> "INVALID_STATE",
           module |-> state]}
    ELSE {[settled |-> "resolved", status |-> "SUCCESS",
           module |-> ReplTarget(state, type)]} \cup
         IF type \in FallibleKinds
           THEN {[settled |-> "resolved", status |-> "ERROR",
                  module |-> state]}
           ELSE {}

\* The page before playground.initialize(): the module's protocol state; the
\* globals wasmInterface (set or null), currentState, appState.initState
\* and appState.mode; the continuations of the task that runs, innermost
\* first; the restarts after a crash that wait for their timer; how the
\* most recent INIT_REPL was answered and whether the most recent
\* initializeRepl failed; the flow that has finished last; the REPL_STEP
\* requests sent and the history entries added for the last input.
FreshPage ==
  [op |-> "page", module |-> "START", wasmInterface |-> FALSE,
   currentState |-> "INIT", initState |-> "INIT", mode |-> "REPL",
   stack |-> << >>, restarts |-> 0, initRepl |-> "none",
   replFailed |-> FALSE, finished |-> "none", steps |-> 0, adds |-> 0]

InitPage == BridgeInit /\ variant = "status" /\ probe = FreshPage

\* The continuation that runs next, and the task with it taken off.
Top == IF probe.stack = << >> THEN "none" ELSE Head(probe.stack)
Popped(p) == [p EXCEPT !.stack = Tail(@)]

\* No task of the page runs: the event loop can start one.
PageIdle == probe.op = "page" /\ probe.stack = << >>

\* One step of the page.
PageStep(p) == probe' = p /\ UNCHANGED bridgeVars

\* A task begins with these continuations.
Begin(p, stack) ==
  [p EXCEPT !.stack = stack, !.finished = "none"]

\* playground.initialize() up to the await of initializeWasm.
initialize ==
  /\ PageIdle
  /\ probe.initState = "INIT"
  /\ PageStep(Begin([probe EXCEPT !.initState = "WASM_LOADING"],
                    <<"initializeWasm">>))

\* ensureReplMode up to the first await of initializeRepl: the mode is
\* REPL, so the init state becomes REPL_INITIALIZING.
EnsureReplMode(p, rest) ==
  IF p.mode = "REPL"
    THEN [p EXCEPT !.initState = "REPL_INITIALIZING",
                   !.stack = <<"initializeRepl", "ensureReplMode">> \o rest]
    ELSE [p EXCEPT !.stack = rest]

\* ensureEditorMode up to the await of wasmInterface.reset().
EnsureEditorMode(p, rest) ==
  IF p.mode = "EDITOR"
    THEN [p EXCEPT !.stack = <<"switchToEditorMode">> \o rest]
    ELSE [p EXCEPT !.stack = rest]

\* playground.initialize() after the await of initializeWasm: a failure is
\* caught and shown; else the interface is kept, the page is set up,
\* currentState = "READY", and executeIntent enters the REPL or the editor
\* with the content of the URL.
initializeWasmReturned ==
  /\ probe.op = "page"
  /\ Top = "initializeWasm"
  /\ \E a \in Answers(probe.module, "INIT"),
        intent \in {"DEFAULT_REPL", "LOAD_URL_CONTENT"} :
       IF a.settled = "rejected"
         THEN PageStep([probe EXCEPT !.initState = "ERROR", !.stack = << >>,
                                     !.finished = "init"])
         ELSE LET p == [probe EXCEPT !.module = a.module,
                                     !.wasmInterface = TRUE,
                                     !.initState = "WASM_READY",
                                     !.currentState = "READY"]
              IN IF intent = "DEFAULT_REPL"
                   THEN PageStep(EnsureReplMode([p EXCEPT !.mode = "REPL"],
                                                <<"init">>))
                   ELSE PageStep(EnsureEditorMode(
                                   [p EXCEPT !.mode = "EDITOR"],
                                   <<"restoreFromHash", "init">>))

\* switchToEditorMode after its await of wasmInterface.reset(), and
\* ensureEditorMode after it: currentState = "READY" whatever the response
\* says, and the init state becomes EDITOR_READY. A rejection passes
\* through both; playground.initialize() catches it, a click handler does not.
switchToEditorModeReturned ==
  /\ probe.op = "page"
  /\ Top = "switchToEditorMode"
  /\ \E a \in Answers(probe.module, "RESET") :
       IF a.settled = "rejected"
         THEN PageStep([probe EXCEPT
                !.initState =
                  IF probe.stack[Len(probe.stack)] = "init" THEN "ERROR"
                                                            ELSE @,
                !.stack = << >>, !.finished = "ensureEditorMode"])
         ELSE PageStep(Popped([probe EXCEPT !.module = a.module,
                                            !.currentState = "READY",
                                            !.initState = "EDITOR_READY",
                                            !.finished = "ensureEditorMode"]))

\* restoreFromHash: if (currentState === "READY") await compileCode(code)
restoreFromHash ==
  /\ probe.op = "page"
  /\ Top = "restoreFromHash"
  /\ PageStep(IF probe.currentState = "READY"
                THEN [probe EXCEPT !.stack = <<"compile">> \o Tail(@)]
                ELSE Popped(probe))

\* playground.initialize() has run to its end.
initializeDone ==
  /\ probe.op = "page"
  /\ Top = "init"
  /\ PageStep(Popped([probe EXCEPT !.finished = "init"]))

\* compileCode after the await of the RESET of compile(): a rejection is
\* caught and shown, else compile() submits LOAD_SOURCE.
compileReset ==
  /\ probe.op = "page"
  /\ Top = "compile"
  /\ \E a \in Answers(probe.module, "RESET") :
       IF a.settled = "rejected"
         THEN PageStep(Popped([probe EXCEPT !.finished = "compileCode"]))
         ELSE PageStep([probe EXCEPT !.module = a.module,
                                     !.stack = <<"compileLoad">> \o Tail(@)])

\* compileCode after the await of compile(): it shows the diagnostics or
\* the error; currentState is not assigned.
compileLoad ==
  /\ probe.op = "page"
  /\ Top = "compileLoad"
  /\ \E a \in Answers(probe.module, "LOAD_SOURCE") :
       PageStep(Popped([probe EXCEPT !.module = a.module,
                                     !.finished = "compileCode"]))

\* initializeRepl after its await of wasmInterface.reset(): a rejection is
\* caught, the init state becomes ERROR and initializeRepl returns; else
\* it calls initRepl(). The response to RESET is only logged.
initializeReplReset ==
  /\ probe.op = "page"
  /\ Top = "initializeRepl"
  /\ \E a \in Answers(probe.module, "RESET") :
       IF a.settled = "rejected"
         THEN PageStep(Popped([probe EXCEPT !.initState = "ERROR",
                                            !.replFailed = TRUE]))
         ELSE PageStep([probe EXCEPT !.module = a.module,
                                     !.stack = <<"initRepl">> \o Tail(@)])

\* initializeRepl after its await of wasmInterface.initRepl(): on SUCCESS
\* currentState = "REPL_ACTIVE"; on any other status and on a rejection
\* the init state becomes ERROR. initializeRepl returns either way.
initializeReplInitRepl ==
  /\ probe.op = "page"
  /\ Top = "initRepl"
  /\ \E a \in Answers(probe.module, "INIT_REPL") :
       LET p == [probe EXCEPT
                   !.module = a.module,
                   !.initRepl = IF a.settled = "rejected" THEN "rejected"
                                                          ELSE a.status]
       IN IF a.status = "SUCCESS"
            THEN PageStep(Popped([p EXCEPT !.currentState = "REPL_ACTIVE",
                                           !.replFailed = FALSE]))
            ELSE PageStep(Popped([p EXCEPT !.initState = "ERROR",
                                           !.replFailed = TRUE]))

\* What ensureReplMode, resetRepl and handleReplCrash do after their await
\* of initializeRepl(): updateAppState({ initState: REPL_READY }).
AfterInitializeRepl(p, flow) ==
  Popped([p EXCEPT !.initState = "REPL_READY", !.finished = flow])

\* ensureReplMode after its await of switchToReplMode().
ensureReplModeDone ==
  /\ probe.op = "page"
  /\ Top = "ensureReplMode"
  /\ PageStep(AfterInitializeRepl(probe, "ensureReplMode"))

\* resetRepl after its await of initializeRepl().
resetReplDone ==
  /\ probe.op = "page"
  /\ Top = "resetRepl"
  /\ PageStep(AfterInitializeRepl(probe, "resetRepl"))

\* processReplInput(input, addToHistory) up to its await of replStep: the
\* input is added to the history if addToHistory (add) is set.
ProcessReplInput(p, add) ==
  [p EXCEPT !.adds = IF add THEN @ + 1 ELSE @,
            !.stack = <<"replStep">>]

\* Mutant: the retry adds the input to the history again.
RetryInput_AddAgain(p) == ProcessReplInput(p, TRUE)

\* await this.processReplInput(input, false), the retry
RetryInput(p) == ProcessReplInput(p, FALSE)

\* processReplInput after its await of replStep(input): a result is shown,
\* and a result that tells of a crash has handleReplCrash set its timer;
\* on INVALID_STATE the init state becomes REPL_INITIALIZING and
\* initializeRepl is called; any other response and a rejection are shown
\* as an error.
replStep ==
  /\ probe.op = "page"
  /\ Top = "replStep"
  /\ \E a \in Answers(probe.module, "REPL_STEP"), isCrash \in BOOLEAN :
       LET p == [probe EXCEPT !.module = a.module, !.steps = @ + 1,
                              !.finished = "processReplInput"]
       IN /\ isCrash => a.status = "SUCCESS" /\ probe.restarts < MaxRestarts
          /\ IF isCrash
               THEN PageStep([p EXCEPT !.restarts = @ + 1, !.stack = << >>])
             ELSE IF a.status = "INVALID_STATE"
               THEN PageStep([p EXCEPT
                      !.initState = "REPL_INITIALIZING",
                      !.stack = <<"initializeRepl", "retry">>])
             ELSE PageStep(Popped(p))

\* processReplInput after its await of initializeRepl(): if the init state
\* is not ERROR it becomes REPL_READY and the input is tried again.
retry ==
  /\ probe.op = "page"
  /\ Top = "retry"
  /\ PageStep(IF probe.initState # "ERROR"
                THEN RetryInput([probe EXCEPT !.initState = "REPL_READY"])
                ELSE Popped(probe))

\* handleReplCrash after its await of wasmInterface.reset(): a rejection
\* is caught and the init state becomes ERROR, else initializeRepl is
\* called.
handleReplCrashReset ==
  /\ probe.op = "page"
  /\ Top = "handleReplCrash"
  /\ \E a \in Answers(probe.module, "RESET") :
       IF a.settled = "rejected"
         THEN PageStep(Popped([probe EXCEPT !.initState = "ERROR",
                                            !.replFailed = TRUE,
                                            !.finished = "handleReplCrash"]))
         ELSE PageStep([probe EXCEPT
                !.module = a.module,
                !.stack = <<"initializeRepl", "handleReplCrashDone">>])

\* handleReplCrash after its await of initializeRepl().
handleReplCrashDone ==
  /\ probe.op = "page"
  /\ Top = "handleReplCrashDone"
  /\ PageStep(AfterInitializeRepl(probe, "handleReplCrash"))

\* The handlers of the page are set up: playground.initialize() has got past
\* initializeWasm.
HandlersSet == PageIdle /\ probe.wasmInterface

\* A click on the editor button: the mode becomes EDITOR and
\* ensureEditorMode is called.
clickEditorMode ==
  /\ HandlersSet
  /\ PageStep(EnsureEditorMode(Begin([probe EXCEPT !.mode = "EDITOR"],
                                     << >>), << >>))

\* A click on the REPL button: the mode becomes REPL and ensureReplMode is
\* called.
clickReplMode ==
  /\ HandlersSet
  /\ PageStep(EnsureReplMode(Begin([probe EXCEPT !.mode = "REPL"], << >>),
                             << >>))

\* The timer of handleCodeChange runs out and compileCode is called; the
\* editor's content also changes when switchToReplMode resets it.
codeChanged ==
  /\ HandlersSet
  /\ PageStep(Begin(probe, <<"compile">>))

\* Enter in the REPL's input, which setupReplInterface has set up: an
\* expression or definition is handed to processReplInput, which adds it
\* to the history.
enterInput ==
  /\ HandlersSet
  /\ probe.initRepl = "SUCCESS"
  /\ PageStep(ProcessReplInput(
                Begin([probe EXCEPT !.steps = 0, !.adds = 0], << >>), TRUE))

\* Enter of the command :reset, which is not added to the history:
\* resetRepl sets the init state to REPL_INITIALIZING and calls
\* initializeRepl.
enterReset ==
  /\ HandlersSet
  /\ probe.initRepl = "SUCCESS"
  /\ PageStep(Begin([probe EXCEPT !.steps = 0, !.adds = 0,
                                  !.initState = "REPL_INITIALIZING"],
                    <<"initializeRepl", "resetRepl">>))

\* The timer of handleReplCrash runs out: the init state becomes
\* REPL_INITIALIZING and wasmInterface.reset() is called.
crashTimer ==
  /\ PageIdle
  /\ probe.restarts > 0
  /\ PageStep(Begin([probe EXCEPT !.restarts = @ - 1,
                                  !.initState = "REPL_INITIALIZING"],
                    <<"handleReplCrash">>))

\* The continuations of a task, which run without another task between.
Continue ==
  \/ initializeWasmReturned
  \/ switchToEditorModeReturned
  \/ restoreFromHash
  \/ initializeDone
  \/ compileReset
  \/ compileLoad
  \/ initializeReplReset
  \/ initializeReplInitRepl
  \/ ensureReplModeDone
  \/ resetReplDone
  \/ replStep
  \/ retry
  \/ handleReplCrashReset
  \/ handleReplCrashDone

NextRepl ==
  \/ initialize
  \/ clickEditorMode
  \/ clickReplMode
  \/ codeChanged
  \/ enterInput
  \/ enterReset
  \/ crashTimer
  \/ Continue

SpecRepl == InitPage /\ [][NextRepl]_vars

\* A task that has begun goes on.
FairSpecRepl == SpecRepl /\ WF_vars(Continue)

\* isWasmReady(), and isReady() of the interface: wasmModule !== null
isWasmReady == wasmModule # NullModule

\* ------------------------------------------------ the HistoryManager class
\* this.maxSize = options.maxSize || 1000
DefaultMaxSize == 1000

\* The command fields of the entries of a document given to import: a
\* command, the same with a blank after it, and an empty one.
Stored == {"a", "a ", ""}

\* The lists of at most n such entries.
RECURSIVE Entries(_)
Entries(n) ==
  IF n = 0 THEN {<< >>}
  ELSE LET shorter == Entries(n - 1)
       IN shorter \cup {Append(e, c) : e \in shorter, c \in Stored}

\* What JSON.parse makes of the text given to import: nothing with an
\* entries array (the text does not parse, or data.entries is no array),
\* or the entries of the document.
Documents ==
  {[entries |-> FALSE, list |-> << >>]} \cup
  {[entries |-> TRUE, list |-> e] : e \in Entries(MaxEntries)}

\* new HistoryManager(options): maxSize 0 stands for an option that is not
\* given (or 0). Beside the fields of the object: the method called last
\* and what it returned, and the entries that the size limit was applied
\* to in it when they were more than maxSize.
HistoryManager(maxSize, deduplicateConsecutive) ==
  [op |-> "manager", state |-> createEmptyHistory,
   maxSize |-> IF maxSize = 0 THEN DefaultMaxSize ELSE maxSize,
   deduplicateConsecutive |-> deduplicateConsecutive,
   call |-> "none", returned |-> "null", unlimited |-> << >>]

\* A manager made with a size limit that the entries can reach.
InitManager ==
  /\ BridgeInit
  /\ variant = "status"
  /\ \E maxSize \in 1..MaxEntries, deduplicateConsecutive \in BOOLEAN :
       probe = HistoryManager(maxSize, deduplicateConsecutive)

\* A method of the manager has run.
Method(name, state, returned, unlimited) ==
  /\ probe.op = "manager"
  /\ probe' = [probe EXCEPT !.state = state, !.call = name,
                            !.returned = returned, !.unlimited = unlimited]
  /\ UNCHANGED bridgeVars

\* if (this.state.entries.length > this.maxSize)
\*   this.state = limitHistorySize(this.state, this.maxSize)
Limited(state, maxSize) ==
  IF Len(state.entries) > maxSize THEN limitHistorySize(state, maxSize).state
                                  ELSE state

\* The entries when they are more than maxSize, else none.
Overflow(entries, maxSize) ==
  IF Len(entries) > maxSize THEN entries ELSE << >>

\* HistoryManager.add(command)
add ==
  \E command \in Typed :
    LET result == addToHistory(probe.state, command)
        limited == Limited(result.state, probe.maxSize)
        deduplicated ==
          IF probe.deduplicateConsecutive
            THEN deduplicateHistory(limited).state ELSE limited
    IN IF result.success
         THEN Method("add", deduplicated, "true",
                     Overflow(result.state.entries, probe.maxSize))
         ELSE Method("add", probe.state, "false", << >>)

\* HistoryManager.navigateBackward(currentInput)
managerNavigateBackward ==
  \E currentInput \in Inputs :
    LET result == navigateBackward(probe.state, currentInput)
    IN IF result.success
         THEN Method("navigateBackward", result.state, result.display, << >>)
         ELSE Method("navigateBackward", probe.state, "null", << >>)

\* HistoryManager.navigateForward()
managerNavigateForward ==
  LET result == navigateForward(probe.state)
  IN IF result.success
       THEN Method("navigateForward", result.state, result.display, << >>)
       ELSE Method("navigateForward", probe.state, "null", << >>)

\* HistoryManager.clear()
clear == Method("clear", clearHistory(probe.state).state, "null", << >>)

\* .filter(e => e.command && typeof e.command === 'string'), the command
\* of each entry kept as it is
Filtered(list) == SelectSeq(list, LAMBDA command : command # "")

\* HistoryManager.import(json)
import ==
  \E data \in Documents :
    LET entries == Filtered(data.list)
        state == [entries |-> entries, currentIndex |-> NullIndex,
                  temporaryInput |-> ""]
    IN IF data.entries
         THEN Method("import", Limited(state, probe.maxSize), "true",
                     Overflow(entries, probe.maxSize))
         ELSE Method("import", probe.state, "false", << >>)

NextManager ==
  \/ add
  \/ managerNavigateBackward
  \/ managerNavigateForward
  \/ clear
  \/ import

SpecManager == InitManager /\ [][NextManager]_vars

\* ---------------------------------------- stepping back and forth in history
\* A caller holds a state that is not navigating and has entries, with an
\* input typed, and is about to step back steps times and forward as often.
\* Beside these: the steps back and forward made, whether each succeeded,
\* the state now and what the last step gave to display.
InitTrip ==
  /\ BridgeInit
  /\ variant = "status"
  /\ \E start \in HistoryStates, typed \in Inputs, steps \in 1..MaxEntries :
       /\ start.currentIndex = NullIndex
       /\ steps <= Len(start.entries)
       /\ probe = [op |-> "trip", start |-> start, typed |-> typed,
                   steps |-> steps, back |-> 0, forward |-> 0,
                   success |-> TRUE, state |-> start, display |-> ""]

\* The caller takes the state and the display of a step that succeeded.
Stepped(result, p) ==
  /\ probe' = IF result.success
                THEN [p EXCEPT !.state = result.state,
                               !.display = result.display]
                ELSE [p EXCEPT !.success = FALSE]
  /\ UNCHANGED bridgeVars

\* A step back: the first with the typed input, a later one with whatever
\* the input field holds then.
stepBackward ==
  /\ probe.op = "trip"
  /\ probe.back < probe.steps
  /\ \E currentInput \in IF probe.back = 0 THEN {probe.typed} ELSE Inputs :
       Stepped(navigateBackward(probe.state, currentInput),
               [probe EXCEPT !.back = @ + 1])

\* A step forward, after the steps back.
stepForward ==
  /\ probe.op = "trip"
  /\ probe.back = probe.steps
  /\ probe.forward < probe.steps
  /\ Stepped(navigateForward(probe.state), [probe EXCEPT !.forward = @ + 1])

NextTrip == stepBackward \/ stepForward

SpecTrip == InitTrip /\ [][NextTrip]_vars

TypeOK ==
  /\ variant \in Variants
  /\ messageInProgress \in BOOLEAN
  /\ wasmIsDead \in BOOLEAN
  /\ Len(messageQueue) <= MaxQueue
  /\ nextId \in 1..(MaxIds + 1)
  /\ \A i \in Ids :
       promise[i] \in {"none", "pending", "resolved", "rejected", "delivered"}

\* ------------------------------------------------------------------- claims
\* The call cycle of activation l is under way: its first export call is
\* due or made and its release has not finished.
InCycle(l) == loop[l].pc \in CyclePcs

\* C1: at most one request is in flight against the module: no call cycle
\* (allocate, entry point, decode, release) is under way for an entry while
\* the cycle of another entry has not finished, whatever the interleaving
\* of the callers' submissions.
C1_OneInFlight ==
  /\ \A l, k \in Loops : InCycle(l) /\ InCycle(k) => l = k
  /\ \A l \in Loops : loop[l].nInvoke <= 1
  /\ \A l \in Loops : InCycle(l) =>
       \A k \in 1..Len(messageQueue) : messageQueue[k].id # loop[l].cur.id

\* C1 witness: the entry point is about to be entered for one entry while
\* other callers' entries wait in the queue.
C1_Witness ==
  \E l \in Loops : loop[l].pc = "invoke" /\ Len(messageQueue) = MaxQueue

\* Requests are numbered in the order of their submission. The queue holds
\* them in that order; the entry in its call is older than every queued
\* one and every request older than it is settled; no promise is settled
\* twice, and none is settled before an older one.
C2_Order ==
  /\ \A k \in 1..(Len(messageQueue) - 1) :
       messageQueue[k].id < messageQueue[k + 1].id
  /\ \A k \in 1..Len(messageQueue) :
       /\ settleCount[messageQueue[k].id] = 0
       /\ promise[messageQueue[k].id] = "pending"
  /\ \A l \in Loops : loop[l].cur.id # 0 =>
       /\ \A k \in 1..Len(messageQueue) : messageQueue[k].id > loop[l].cur.id
       /\ \A j \in Ids : j < loop[l].cur.id => settleCount[j] = 1
       /\ settleCount[loop[l].cur.id] = 0
  /\ \A i \in Ids : settleCount[i] <= 1
  /\ \A i, j \in Ids : i < j /\ settleCount[j] = 1 => settleCount[i] = 1

\* A promise is settled only by the drain loop that made the call for its
\* own entry, with the outcome of that call, and a resolved response is the
\* one the module wrote for that request.
C2_Own ==
  \A i \in Ids : promise[i] = "pending" /\ promise'[i] # "pending" =>
    \E l \in Loops :
      /\ loop[l].pc = "settle"
      /\ loop[l].cur.id = i
      /\ promise'[i] = Outcome(loop[l])
      /\ loop[l].returned => loop[l].resp.req = i
      /\ settleCount'[i] = 1

\* C2: FIFO delivery: requests submitted in the order R1, R2, R3 have their
\* calls made in that order and their promises settled in that order, each
\* with the outcome of its own call; none is skipped, duplicated or
\* reordered.
C2_Fifo == []C2_Order /\ [][C2_Own]_vars

\* C2 witness: the third request is being settled after the second, while
\* a fourth, submitted meanwhile, waits its turn.
C2_Witness ==
  \E l \in Loops :
    /\ loop[l].pc = "settle"
    /\ loop[l].cur.id = 3
    /\ settleCount[2] = 1
    /\ Len(messageQueue) = 1
    /\ messageQueue[1].id = 4

\* No module export has been called in the call of c.
NoExportCalled(c) ==
  /\ c.nAllocMsg = 0 /\ c.nAllocResp = 0 /\ c.nInvoke = 0
  /\ c.nFreeMsg = 0 /\ c.nFreeResp = 0 /\ c.nLog = 0 /\ c.nClear = 0

\* An entry that is dequeued while wasmIsDead is set fails at once with
\* the fatal error, and no export is called for it.
C3_Dequeue ==
  \A l \in Loops :
    (wasmIsDead /\ loop[l].pc = "while" /\ loop'[l].pc \notin {"while", "idle"})
      => /\ loop'[l].cur = Head(messageQueue)
         /\ loop'[l].pc = "settle"
         /\ loop'[l].err = Error("dead")
         /\ NoExportCalled(loop'[l])

\* While wasmIsDead is set no export is called, and every promise that is
\* settled is rejected.
C3_Rejected ==
  wasmIsDead =>
    /\ \A l \in Loops :
         /\ loop'[l].nAllocMsg <= loop[l].nAllocMsg
         /\ loop'[l].nAllocResp <= loop[l].nAllocResp
         /\ loop'[l].nInvoke <= loop[l].nInvoke
    /\ \A i \in Ids : promise'[i] \in {"resolved", "rejected"} =>
         promise'[i] = "rejected"
    /\ wasmIsDead'

\* C3: fault containment: once a call has failed with a runtime fault and
\* wasmIsDead is set, every later request, the entries already queued at
\* the fault included, is rejected with the fatal error and no allocate or
\* entry-point export is invoked for it.
C3_FaultContainment == [][C3_Dequeue /\ C3_Rejected]_vars

\* C3 witness: an entry dequeued after the fault is about to be rejected
\* with the fatal error while another still waits in the queue.
C3_Witness ==
  \E l \in Loops :
    /\ wasmIsDead
    /\ loop[l].pc = "settle"
    /\ loop[l].err = Error("dead")
    /\ Len(messageQueue) > 0

\* The activations of processMessageQueue that are past the guard.
ActiveLoops == {l \in Loops : loop[l].pc # "idle"}

\* At most one drain loop is active, and the flag tells whether one is.
C4_OneLoop ==
  /\ Cardinality(ActiveLoops) <= 1
  /\ messageInProgress <=> ActiveLoops # {}

\* A submission made while a drain loop is active appends its entry at
\* the back of the queue and leaves every activation as it is.
C4_Append ==
  (messageInProgress /\ nextId' # nextId) =>
    /\ Len(messageQueue') = Len(messageQueue) + 1
    /\ SubSeq(messageQueue', 1, Len(messageQueue)) = messageQueue
    /\ messageQueue'[Len(messageQueue')].id = nextId
    /\ loop' = loop
    /\ messageInProgress'

\* C4: when sendMessageQueued is called while a drain loop is active, the
\* entry is only appended to the queue and no second drain loop starts; at
\* most one drain loop is active at any time.
C4_SingleDrain == []C4_OneLoop /\ [][C4_Append]_vars

\* C4 witness: two submissions made while the drain loop was in a call
\* wait in the queue behind it.
C4_Witness ==
  /\ messageInProgress
  /\ Len(messageQueue) = 2
  /\ \E l \in Loops : loop[l].pc = "finallyMsg" /\ loop[l].cur.id = 2

\* A request that is not settled is still queued or in its call.
C5_Kept ==
  \A i \in Ids : promise[i] = "pending" =>
    \/ \E k \in 1..Len(messageQueue) : messageQueue[k].id = i
    \/ \E l \in Loops : loop[l].cur.id = i

\* C5: without resetWasm, every request submitted through
\* sendMessageQueued is eventually dequeued and its promise settled exactly
\* once, also a request whose caller has stopped waiting (the compile
\* timeout): the entry is neither removed nor cancelled.
C5_Settled ==
  /\ [](C5_Kept /\ \A i \in Ids : settleCount[i] <= 1)
  /\ \A i \in Ids : promise[i] = "pending" ~> settleCount[i] = 1

\* C5 witness: a request is settled after its caller had stopped waiting.
C5_Witness ==
  \E i \in Ids :
    /\ promise[i] \in {"resolved", "rejected"}
    /\ ~waiting[i]
    /\ settleCount[i] = 1

\* The errors a call throws that are no runtime fault: a non-zero status
\* code, a declared length out of range, a missing terminator, a JSON
\* parse failure, a failed allocation, a null response pointer.
NonFaultKinds == {"status", "length", "noterm", "parse", "alloc", "null"}

\* While a call carries a non-fault error the liveness flag is live.
C6_Live ==
  \A l \in Loops : loop[l].err.kind \in NonFaultKinds => ~wasmIsDead

\* Every step of a call that throws or carries a non-fault error leaves
\* the liveness flag, the queue and the drain flag alone and changes no
\* promise but its own, which it rejects; after that the drain loop is
\* back at its loop condition.
C6_Step ==
  \A l \in Loops :
    (loop'[l] # loop[l] /\ (loop[l].err.kind \in NonFaultKinds
                              \/ loop'[l].err.kind \in NonFaultKinds))
      => /\ wasmIsDead' = wasmIsDead
         /\ messageQueue' = messageQueue
         /\ messageInProgress' /\ messageInProgress
         /\ \A i \in Ids : promise'[i] # promise[i] =>
              /\ i = loop[l].cur.id
              /\ loop[l].pc = "settle"
              /\ promise'[i] = "rejected"
         /\ (loop[l].pc = "settle" /\ loop[l].err.kind \in NonFaultKinds) =>
              /\ promise'[loop[l].cur.id] = "rejected"
              /\ loop'[l] = [IdleLoop EXCEPT !.pc = "while"]

\* With the flag live, the next entry the drain loop shifts is the head
\* of the queue, and its call starts with allocateMessageBuffer.
C6_Next ==
  \A l \in Loops :
    (loop[l].pc = "while" /\ loop'[l].pc \notin {"while", "idle"}
       /\ ~wasmIsDead /\ wasmModule.loaded)
      => /\ loop'[l].cur = Head(messageQueue)
         /\ messageQueue' = Tail(messageQueue)
         /\ loop'[l].pc = "allocMsg"

\* C6: a call that fails with a non-fault error (non-zero status code,
\* invalid declared length, JSON parse failure, failed allocation) rejects
\* only its own promise: the liveness flag stays live, the queued entries
\* keep their order, and the drain loop goes on to the call for the next
\* entry.
C6_LocalFailure == []C6_Live /\ [][C6_Step /\ C6_Next]_vars

\* C6 witness: a call that failed with a non-zero status code is about to
\* reject its promise while the next entry waits in the queue.
C6_Witness ==
  \E l \in Loops :
    /\ loop[l].pc = "settle"
    /\ loop[l].err.kind = "status"
    /\ ~wasmIsDead
    /\ Len(messageQueue) > 0

\* Activation l makes its entry-point call in this step.
Invokes(l) ==
  loop[l].pc = "invoke" /\ loop'[l].nInvoke = loop[l].nInvoke + 1

Rejections == {"INVALID_STATE", "INVALID_MESSAGE"}

\* The module answered the request of call c with a protocol-level
\* rejection, and the call is over.
RejectedByModule(c) == c.pc = "settle" /\ c.raw.status \in Rejections

\* The exports a call invokes after it has decoded the response.
LateExports ==
  {"clearDebugLog", "freeMessageBuffer", "freeResponseBuffer",
   "freeWasmString"}

EnumeratedReasons == {errorMessages(code) : code \in 1..MaxStatusCode}

\* The entry point of call c reported a failure (a non-zero status code,
\* or a null pointer), and the call is over.
EntryFailed(c) == c.pc = "settle" /\ c.invokeRet \in {"nonzero", "null"}

\* The error names the reason the entry point gave.
NamesReason(c) ==
  \/ /\ c.invokeRet = "nonzero"
     /\ c.err = StatusError(c.code)
     /\ c.err.reason \in EnumeratedReasons
  \/ /\ c.invokeRet = "null"
     /\ c.err = Error("null")

\* C9 as stated: whenever the entry point returns a non-zero status code
\* or a null pointer, the call is rejected with an error that names the
\* enumerated reason, and the response region is never decoded or returned
\* as a successful response.
C9_Original ==
  \A l \in Loops : EntryFailed(loop[l]) =>
    /\ Outcome(loop[l]) = "rejected"
    /\ loop[l].resp = NoResponse
    /\ NamesReason(loop[l])

\* C9 amended: whenever the entry point returns a non-zero status code or
\* a null pointer, the call is rejected and the response region is never
\* decoded or returned as a successful response; the error names the
\* enumerated reason unless a release call of the same call
\* (freeMessageBuffer, freeResponseBuffer) raises a runtime fault, which
\* then is the error.
C9_EntryFailureRejects ==
  \A l \in Loops : EntryFailed(loop[l]) =>
    /\ Outcome(loop[l]) = "rejected"
    /\ loop[l].resp = NoResponse
    /\ \/ NamesReason(loop[l])
       \/ /\ IsRuntimeError(loop[l].err)
          /\ loop[l].err.reason \in {"freeMessageBuffer", "freeResponseBuffer"}
          /\ loop[l].nFreeMsg > 0

\* C9 witness: the entry point returned status code 4 and the call is
\* about to be rejected with the error that names invalid_state_for_message.
C9_Witness ==
  \E l \in Loops :
    /\ EntryFailed(loop[l])
    /\ loop[l].code = 4
    /\ loop[l].err.reason = "invalid_state_for_message"
    /\ ~loop[l].returned

\* How often a release export is due in a call: once if the matching
\* allocate export returned a non-zero pointer, else not at all.
ReleasesDue(allocRet) == IF allocRet = "ptr" THEN 1 ELSE 0

\* C10: in every call of the status-code variant, freeMessageBuffer is
\* invoked exactly once if allocateMessageBuffer returned a non-zero
\* pointer and not at all otherwise, and freeResponseBuffer exactly once
\* if allocateResponseBuffer returned a non-zero pointer and not at all
\* otherwise, on every exit path.
C10_ReleaseOncePerReserve ==
  \A l \in Loops : (variant = "status" /\ loop[l].pc = "settle") =>
    /\ loop[l].nFreeMsg = ReleasesDue(loop[l].allocMsgRet)
    /\ loop[l].nFreeResp = ReleasesDue(loop[l].allocRespRet)

\* C11: in the status-code variant a length prefix L that is 0 or exceeds
\* the capacity of the response region less 4 (262140 for a region of 256
\* KiB) makes the call fail before any byte after the prefix is read; a
\* reply is decoded only when 0 < L <= 262140, and then exactly L bytes are
\* read.
C11_LengthPrefix ==
  (probe.op = "length" /\ probe.pc = "read") =>
    LET L == probe.bytes[1] + 256 * probe.bytes[2] + 65536 * probe.bytes[3]
               + 16777216 * probe.bytes[4]
    IN  /\ (L = 0 \/ L > 262140) =>
             probe.out.err = "length" /\ probe.out.read = 0
        /\ (0 < L /\ L <= 262140) =>
             probe.out.err = "none" /\ probe.out.read = L

\* the largest length accepted was read in full
C11_Witness ==
  /\ probe.op = "length"
  /\ probe.pc = "read"
  /\ probe.bytes = <<252, 255, 3, 0>>
  /\ probe.out = [err |-> "none", read |-> 262140]

\* C12: decoding fails when the response has no status field, so no call
\* hands its caller a resolved response whose status is missing or is not
\* one of SUCCESS, ERROR, INVALID_STATE and INVALID_MESSAGE.
C12_StatusChecked ==
  \A l \in Loops :
    (loop[l].pc = "settle" /\ loop[l].returned) =>
      loop[l].resp.status \in
        {"SUCCESS", "ERROR", "INVALID_STATE", "INVALID_MESSAGE"}

\* A reserve call of the call returned 0.
ReserveFailed(c) == c.allocMsgRet = "zero" \/ c.allocRespRet = "zero"

\* Such a call never reaches the entry point, never returns a response and
\* runs with the flag live; when its outcome is handed over it carries an
\* error and the release of the message region it had acquired was called
\* once, and the region is free again unless that release faulted.
C13_Call ==
  \A l \in Loops :
    ReserveFailed(loop[l]) =>
      /\ loop[l].nInvoke = 0
      /\ ~loop[l].returned
      /\ ~wasmIsDead
      /\ loop[l].pc = "settle" =>
           /\ loop[l].err # NoError
           /\ loop[l].allocMsgRet = "ptr" =>
                /\ loop[l].nFreeMsg = 1
                /\ wasm.msgBuf =>
                     loop[l].err = RuntimeError("freeMessageBuffer")

\* Handing the outcome over rejects the promise of that call and no other,
\* leaves the flag live and the queue as it is, and the call for the entry
\* at the head of the queue passes the liveness guard and starts with its
\* own reserve call.
C13_Settle ==
  \A l \in Loops :
    (loop[l].pc = "settle" /\ ReserveFailed(loop[l]) /\ loop'[l] # loop[l])
      => /\ promise'[loop[l].cur.id] = "rejected"
         /\ \A i \in Ids \ {loop[l].cur.id} : promise'[i] = promise[i]
         /\ ~wasmIsDead'
         /\ messageQueue' = messageQueue
         /\ loop'[l].pc = "while"
         /\ messageQueue' # << >> =>
              EnterCall(Head(messageQueue'), wasmIsDead', wasmModule',
                        wasmMemory').pc = "allocMsg"

ResetStep ==
  /\ wasmModule' = NullModule
  /\ wasmMemory' = "null"
  /\ messageQueue' = << >>
  /\ ~messageInProgress'

\* C14: once the liveness flag is false it stays false: no later request,
\* queued entry, call that looks successful or call of initializeWasm makes
\* it live again; only resetWasm restores it.
C14_DeadStaysDead == [][(wasmIsDead /\ ~wasmIsDead') => ResetStep]_vars

\* C14 witness: initializeWasm was called again while the flag was false
\* and no reset had happened; its INIT request was refused by the liveness
\* guard.
C14_Witness ==
  \E l \in Loops :
    /\ wasmIsDead
    /\ wasmModule.loaded
    /\ initPc = "awaitInit"
    /\ loop[l].pc = "settle"
    /\ loop[l].cur.id = InitRequest
    /\ loop[l].cur.id > 1
    /\ loop[l].err = Error("dead")

\* The entry point of the call raised a runtime fault.
EntryFaulted(c) == c.invokeRet = "trap"

\* Once the catch block has run for such a call the flag is false, and the
\* call ends with a runtime fault as its error and no response returned.
C15_Caught ==
  \A l \in Loops :
    (EntryFaulted(loop[l])
       /\ loop[l].pc \in {"finallyMsg", "finallyResp", "settle"})
      => /\ wasmIsDead
         /\ ~loop[l].returned
         /\ IsRuntimeError(loop[l].err)

\* The step that hands over the outcome of such a call rejects its promise
\* and finds the flag false already; from then on the flag stays false, so
\* it is false when the caller's reaction runs.
C15_Settle ==
  /\ \A l \in Loops :
       (loop[l].pc = "settle" /\ EntryFaulted(loop[l]) /\ loop'[l] # loop[l])
         => /\ wasmIsDead
            /\ promise'[loop[l].cur.id] = "rejected"
  /\ wasmIsDead => wasmIsDead'

\* C15: when the entry point raises a hard runtime fault during a call, the
\* promise of that call is rejected, never resolved, with a runtime fault,
\* and the liveness flag is already false when the rejection is delivered
\* to the caller, also when reading the debug log while the fault is
\* handled fails.
C15_FaultRejects == []C15_Caught /\ [][C15_Settle]_vars

\* C15 witness: the entry point faulted, the read of the debug log in the
\* catch block failed, and the call is about to reject its promise.
C15_Witness ==
  \E l \in Loops :
    /\ loop[l].pc = "settle"
    /\ EntryFaulted(loop[l])
    /\ loop[l].logFailed
    /\ loop[l].nLog = 1
    /\ wasmIsDead

\* C16: every type or hover query for an editor position with 0-based line
\* l and column c produces a request with line = l + 1 and ch = c + 1, on
\* the path through getTypeInfo (GET_TYPE_INFO) and on the path through
\* getHoverInfo (GET_HOVER_INFO).
C16_OneBased ==
  (probe.op = "position" /\ probe.pc = "sent") =>
    /\ probe.request.line = probe.pos.line + 1
    /\ probe.request.ch = probe.pos.column + 1

C18_First ==
  \A l \in Loops :
    Invokes(l) =>
      /\ loop[l].cur.id = 1 =>
           loop[l].cur.type = "INIT" /\ wasm.state = "START"
      /\ loop[l].cur.id > 1 => settleCount[1] = 1

\* The answer to INIT in START: the module is in READY, and a well-formed
\* response has status SUCCESS and the version string as its message.
C18_Answer ==
  \A l \in Loops :
    (Invokes(l) /\ loop[l].cur.type = "INIT" /\ wasm.state = "START"
       /\ loop'[l].raw # NoResponse)
      => /\ wasm'.state = "READY"
         /\ loop'[l].raw.form = "json" =>
              /\ loop'[l].raw.status = "SUCCESS"
              /\ loop'[l].raw.message = "version"

\* initializeWasm returns the message of that response as compilerVersion.
C18_Reported ==
  (initPc = "awaitInit" /\ initPc' = "returned"
     /\ value[InitRequest].status = "SUCCESS")
    => compilerVersion' = value[InitRequest].message

C19_Drained ==
  \A l \in Loops :
    (loop[l].pc = "settle" /\ loop[l].returned /\ wasmModule.debug)
      => /\ loop[l].nLog = 1
         /\ loop[l].nClear = 1
         /\ ~wasm.log

\* An empty log stays empty until the entry point is called again.
C19_Kept == (~wasm.log /\ wasm'.log) => \E l \in Loops : Invokes(l)

\* C19: after every call that decoded a response, the module's debug log
\* has been read and clearDebugLog has been called before the response is
\* returned to the caller, also when reading the log throws; hence the log
\* is empty when the next queue entry starts.
C19_LogCleared == []C19_Drained /\ [][C19_Kept]_vars

\* C19 witness: the read of the log failed, clearDebugLog was called all
\* the same, and the call is about to hand its response over with the log
\* empty while the next entry waits.
C19_Witness ==
  \E l \in Loops :
    /\ loop[l].pc = "settle"
    /\ loop[l].returned
    /\ wasmModule.debug
    /\ loop[l].logFailed
    /\ loop[l].nClear = 1
    /\ ~wasm.log
    /\ messageQueue # << >>

\* C20: once the module is initialised no export is called outside the
\* drain loop: the module is touched only in a step the drain loop takes
\* while it works on its current queue entry, so no export call falls
\* between the reserve and the release of another call.
C20_OnlyDrainLoop ==
  [][wasm' # wasm =>
       \E l \in Loops : loop[l].pc \in CyclePcs /\ loop'[l] # loop[l]]_vars

\* C21: the page never has two compiles outstanding at once: whenever a
\* compile that compileCode started has a request that is not yet
\* resolved, no other compile has one, whether or not the 10-second timer
\* of the earlier compile has run out; and no compile is ever abandoned by
\* its timer while a request of it is unresolved.
C21_OneCompileOutstanding ==
  /\ \A c, d \in Compiles : c # d => ~(Outstanding(c) /\ Outstanding(d))
  /\ \A c \in Compiles : ~compiles[c].abandoned

\* The second compile is outstanding, the first one is over and its timer
\* has run out.
C21_Witness ==
  /\ compiles[1].pc \in {"resolved", "rejected"}
  /\ compiles[1].timer = "none"
  /\ Outstanding(2)
  /\ \E l \in Loops : loop[l].pc = "invoke" /\ loop[l].cur.type = "LOAD_SOURCE"

WellFormedAt(list) ==
  {k \in 1..Len(list) :
     /\ list[k].region.present
     /\ \A f \in {"start_line", "start_column", "end_line", "end_column"} :
          list[k].region[f] = "number"}

\* C23: parseDiagnostics returns exactly the entries of diagnostics.list
\* whose region has start_line, start_column, end_line and end_column as
\* numbers, in their original order, every other entry is dropped, and a
\* result without a diagnostics list yields the empty sequence.
C23_ParseDiagnostics ==
  (probe.op = "diagnostics" /\ probe.pc = "parsed") =>
    IF probe.shape # "array" THEN probe.out = << >>
    ELSE LET kept == WellFormedAt(probe.list) IN
         /\ Len(probe.out) = Cardinality(kept)
         /\ \A j \in 1..Len(probe.out) :
              LET k == CHOOSE k \in kept :
                         Cardinality({m \in kept : m <= k}) = j
              IN /\ probe.out[j].message = probe.list[k].message
                 /\ probe.out[j].region = probe.list[k].region

\* A list of two entries of which the first lacks a number and the second
\* is kept.
C23_Witness ==
  /\ probe.op = "diagnostics"
  /\ probe.pc = "parsed"
  /\ Len(probe.list) = 2
  /\ probe.list[1].region.present
  /\ probe.list[1].region.end_column # "number"
  /\ Len(probe.out) = 1
  /\ probe.out[1].message = 2

\* C24: encoding a request (JSON.stringify, then UTF-8) and decoding the
\* bytes gives back the request field for field, and an optional field
\* (source, identifier, line, ch) that the request does not have is not in
\* the encoded bytes.
C24_RoundTrip ==
  /\ (probe.op = "encode" /\ probe.pc = "decoded") =>
       probe.decoded = probe.message
  /\ (probe.op = "encode" /\ probe.pc \in {"encoded", "decoded"}) =>
       \A key \in {"source", "identifier", "line", "ch"} :
         ~probe.message[key].present =>
           \A k \in 1..Len(probe.bytes) : probe.bytes[k].key # key

\* A LOAD_SOURCE whose source holds a backslash and a surrogate without
\* partner, and no other optional field, was encoded and decoded.
C24_Witness ==
  /\ probe.op = "encode"
  /\ probe.pc = "decoded"
  /\ probe.message.type = "LOAD_SOURCE"
  /\ probe.message.source = StringField(<<"BACKSLASH", "SURROGATE">>)
  /\ ~probe.message.line.present
  /\ Len(probe.bytes) = 2
  /\ probe.decoded.source.text = <<"BACKSLASH", "SURROGATE">>

C26_ConcurrentLoadReady ==
  /\ \A l \in Loops :
       (loop[l].pc = "invoke" /\ loop[l].cur.type = "LOAD_SOURCE") =>
         wasm.state = "READY"
  /\ \A c \in Compiles : compiles[c].status # "INVALID_STATE"

\* A request of the given kind is submitted in this step: it is appended
\* to the queue under the next request id.
Submitted(type) ==
  /\ nextId' = nextId + 1
  /\ Len(messageQueue') > 0
  /\ \E k \in 1..Len(messageQueue') :
       messageQueue'[k] = [id |-> nextId, type |-> type]

AtEntryStart(l) == loop[l].pc \in {"while", "allocMsg"}
QueueIdle == ~messageInProgress /\ \A l \in Loops : loop[l].pc = "idle"

\* No region is reserved where one is about to be reserved (so there is
\* never more than one of a kind), and none is outstanding when the drain
\* loop starts on an entry or the queue is idle.
RegionsInStep ==
  /\ \A l \in Loops :
       /\ loop[l].pc = "allocMsg" => ~wasm.msgBuf
       /\ loop[l].pc = "allocResp" => ~wasm.respBuf
       /\ (variant = "pointer" /\ loop[l].pc = "invoke") => ~wasm.respBuf
       /\ AtEntryStart(l) => ~wasm.msgBuf /\ ~wasm.respBuf
  /\ QueueIdle => ~wasm.msgBuf /\ ~wasm.respBuf

C29_PointerReleases ==
  \A l \in Loops :
    (variant = "pointer" /\ loop[l].invokeRet \in {"null", "ptr"}) =>
      /\ loop[l].pc \in {"freeString", "debugLog"} => loop[l].nFreeMsg = 1
      /\ loop[l].pc = "settle" =>
           /\ loop[l].nFreeMsg = 1
           /\ loop[l].nFreeResp = IF loop[l].invokeRet = "ptr" THEN 1 ELSE 0
      /\ ~loop[l].freeNull

\* C30 as stated: a call that ends with a runtime fault of a module
\* export (allocateMessageBuffer, allocateResponseBuffer, the entry point,
\* or a release in the finally block) has set the liveness flag false, so
\* that the next request is rejected without the module being invoked.
C30_FaultSetsDead ==
  \A l \in Loops :
    (loop[l].pc = "settle" /\ IsRuntimeError(loop[l].err)) => wasmIsDead

\* C31 as stated: also when resetWasm is called while requests wait in the
\* queue or a drain loop is active, every promise sendMessageQueued has
\* returned is eventually settled, and at most one drain loop is active.
C31_ResetSettles ==
  /\ \A i \in Ids : promise[i] = "pending" ~> promise[i] # "pending"
  /\ [](Cardinality({l \in Loops : loop[l].pc # "idle"}) <= 1)

\* The protocol state that a value of currentState stands for.
Tracked(state) == IF state = "INIT" THEN "START" ELSE state

\* C32 as stated: whenever no request is outstanding, currentState agrees
\* with the module's protocol state: READY after a successful INIT or
\* RESET, LOADED after a LOAD_SOURCE that returned SUCCESS, REPL_ACTIVE
\* after an INIT_REPL that returned SUCCESS.
C32_TrackedState ==
  PageIdle => Tracked(probe.currentState) = probe.module

\* C34 as stated: when ensureReplMode, resetRepl or handleReplCrash has
\* finished and its REPL initialization failed, the init state is ERROR;
\* and the init state is REPL_READY only if the most recent INIT_REPL
\* returned SUCCESS.
C34_ReplFailureShown ==
  PageIdle =>
    /\ (probe.finished \in {"ensureReplMode", "resetRepl",
                            "handleReplCrash"} /\ probe.replFailed) =>
         probe.initState = "ERROR"
    /\ probe.initState = "REPL_READY" => probe.initRepl = "SUCCESS"

C33_ReadyMeansInitialized == initPc = "failed" => ~isWasmReady

\* C36: in every state of a HistoryManager, after any sequence of add,
\* navigateBackward, navigateForward, clear and import, currentIndex is
\* null or the index of an entry (0 <= currentIndex < entries.length), and
\* temporaryInput is the empty string whenever currentIndex is null.
C36_IndexInRange ==
  probe.op = "manager" =>
    IF probe.state.currentIndex = NullIndex
      THEN probe.state.temporaryInput = ""
      ELSE /\ 0 <= probe.state.currentIndex
           /\ probe.state.currentIndex < Len(probe.state.entries)

\* The manager has stepped back to the oldest of several entries, with
\* the typed input saved.
C36_Witness ==
  /\ probe.op = "manager"
  /\ probe.call = "navigateBackward"
  /\ probe.returned # "null"
  /\ probe.state.currentIndex = 0
  /\ Len(probe.state.entries) >= 2
  /\ probe.state.temporaryInput = "t"

\* C38 as stated: with consecutive deduplication enabled, after any
\* sequence of add, navigateBackward, navigateForward, clear and import no
\* two adjacent entries hold the same command, and every stored command is
\* trimmed and not empty.
C38_NoAdjacentDuplicates ==
  (probe.op = "manager" /\ probe.deduplicateConsecutive) =>
    /\ \A i \in 1..(Len(probe.state.entries) - 1) :
         probe.state.entries[i] # probe.state.entries[i + 1]
    /\ \A i \in 1..Len(probe.state.entries) :
         /\ probe.state.entries[i] # ""
         /\ Trim(probe.state.entries[i]) = probe.state.entries[i]

\* C39 as stated: after every add or import that succeeded the manager
\* holds at most maxSize entries, and when the size limit cut entries off,
\* the entries held are the newest maxSize ones in their order.
C39_NewestKept ==
  (probe.op = "manager" /\ probe.call \in {"add", "import"} /\
   probe.returned = "true") =>
    /\ Len(probe.state.entries) <= probe.maxSize
    /\ probe.unlimited # << >> =>
         probe.state.entries =
           SubSeq(probe.unlimited,
                  Len(probe.unlimited) - probe.maxSize + 1,
                  Len(probe.unlimited))

\* C37: from a state that is not navigating (currentIndex null) with
\* n >= 1 entries and typed input x, k steps back (1 <= k <= n) and then k
\* steps forward all succeed; the typed input is saved on the first step
\* back and kept while navigating, the entries never change, and the last
\* step forward displays x and leaves currentIndex null.
C37_RoundTrip ==
  probe.op = "trip" =>
    /\ probe.success
    /\ probe.state.entries = probe.start.entries
    /\ (probe.back >= 1 /\ probe.forward < probe.steps) =>
         /\ probe.state.temporaryInput = probe.typed
         /\ probe.state.currentIndex # NullIndex
    /\ probe.forward = probe.steps =>
         /\ probe.display = probe.typed
         /\ probe.state.currentIndex = NullIndex

\* Several steps back and as many forward have been made, and the typed
\* input is displayed again.
C37_Witness ==
  /\ probe.op = "trip"
  /\ probe.steps >= 2
  /\ probe.forward = probe.steps
  /\ probe.typed = "t"
  /\ probe.display = "t"

====
